---- MODULE Spec2Model ----
(***************************************************************************)
(* Model of the PC2 streaming tree builder (pc2_t, pc2_batcher_t,          *)
(* tree_address_t, process_writes) of supra_seal.                          *)
(*                                                                         *)
(* Field elements are symbolic.  Poseidon is an uninterpreted injective    *)
(* function: hashing the TREE_ARITY children of a tree node, in order,     *)
(* yields that node; any other input yields a term that names its inputs.  *)
(* The tree arity is a sector parameter; the model runs with arity 2 so    *)
(* that whole trees fit in a state.  size_t is modelled modulo SIZE_MOD.   *)
(***************************************************************************)
EXTENDS Integers, Sequences, FiniteSets, TLC

\* ------------------------------------------------------------------------
\* Program constants
\* ------------------------------------------------------------------------
TREE_ARITY == 2
NODE_SIZE == 32
PARALLEL_SECTORS == 2
SIZE_MOD == 1048576

Sectors == 0 .. (PARALLEL_SECTORS - 1)

\* ------------------------------------------------------------------------
\* Bounds of the model
\* ------------------------------------------------------------------------
\* partitions per sector (GetNumTreeRCFiles) range over 1 .. MaxPartitions
MaxPartitions == 3
\* disk_io_batch_size ranges over 2 .. MaxBatchSize
MaxBatchSize == 3
\* num_host_batches and num_host_empty_batches range over 1 .. MaxHostBatches
MaxHostBatches == 2
\* tree_address_t on its own: leaf counts, arities and layer skips up to
MaxLeaves == 16
MaxArity == 4
MaxSkips == 3

\* ------------------------------------------------------------------------
\* Generic helpers
\* ------------------------------------------------------------------------
Min(a, b) == IF a <= b THEN a ELSE b

RECURSIVE Pow(_, _)
Pow(a, n) == IF n = 0 THEN 1 ELSE a * Pow(a, n - 1)

\* size_t subtraction (wraps)
SubW(a, b) == (a - b + SIZE_MOD) % SIZE_MOD
AddW(a, b) == (a + b) % SIZE_MOD

\* ------------------------------------------------------------------------
\* tree_address_t
\* ------------------------------------------------------------------------
\* node_count after the layer_skips loop of the constructor
\* the constructor without its layer_skips loop
SkipNone(node_count, arity, skips) == node_count

RECURSIVE SkipLayers(_, _, _)
SkipLayers(node_count, arity, skips) ==
  IF skips = 0 THEN node_count
  ELSE SkipLayers(node_count \div arity, arity, skips - 1)

\* the while (node_count > 1) loop, then the final push_back
RECURSIVE LayerOffsetsLoop(_, _, _, _, _)
LayerOffsetsLoop(offs, offset, node_count, arity, node_size) ==
  IF node_count > 1
  THEN LayerOffsetsLoop(Append(offs, offset), offset + node_count * node_size,
                        node_count \div arity, arity, node_size)
  ELSE Append(offs, offset)

\* tree_address_t(leaf_count, arity, node_size, layer_skips): the object is
\* its layer_offsets vector (index i of the code is index i+1 here)
tree_address_t(leaf_count, arity, node_size, layer_skips) ==
  [ok |-> leaf_count % arity = 0,
   node_size |-> node_size,
   layer_offsets |-> LayerOffsetsLoop(<< >>, 0,
                        SkipLayers(leaf_count, arity, layer_skips),
                        arity, node_size)]

\* tree_address_t::address; an index outside the vector reads past its end
AddressInRange(t, layer) == layer >= 0 /\ layer < Len(t.layer_offsets)

\* address without the scaling by node_size
address_unscaled(t, layer, node) ==
  (t.layer_offsets[layer + 1] + node) % SIZE_MOD

address(t, layer, node) ==
  (t.layer_offsets[layer + 1] + node * t.node_size) % SIZE_MOD

data_size(t) == t.layer_offsets[Len(t.layer_offsets)] + t.node_size

\* ------------------------------------------------------------------------
\* Symbolic field elements and Poseidon
\* ------------------------------------------------------------------------
\* t: "c" tree-C node, "r" tree-R node, "zero", "uninit", "H" (other hash);
\* s: sector; l: tree layer; i: node index in that layer of the sector's
\* whole tree (all partitions side by side); e: built from encoded data
Val(t, s, l, i, e) == [t |-> t, s |-> s, l |-> l, i |-> i, e |-> e, in |-> << >>]

Uninit == Val("uninit", 0, 0, 0, FALSE)
Zero == Val("zero", 0, 0, 0, FALSE)

\* column hash of sector s, sector node n (Poseidon over the N layers)
ColumnHash(s, n) == Val("c", s, 0, n, FALSE)
\* last-layer element of sector s, node n; e: data[s,n] has been added
Layer11(s, n) == Val("r", s, 0, n, FALSE)
FieldAdd(v, s, n) == IF v = Layer11(s, n) THEN Val("r", s, 0, n, TRUE)
                     ELSE [t |-> "H", s |-> s, l |-> 0, i |-> n, e |-> TRUE, in |-> <<v>>]

IsSiblings(in) ==
  /\ Len(in) = TREE_ARITY
  /\ in[1].t \in {"c", "r"}
  /\ in[1].i % TREE_ARITY = 0
  /\ \A k \in 1 .. Len(in) :
       /\ in[k].t = in[1].t /\ in[k].s = in[1].s /\ in[k].l = in[1].l
       /\ in[k].e = in[1].e /\ in[k].i = in[1].i + (k - 1)

\* tree-arity Poseidon of the sequence in
Poseidon(in) ==
  IF IsSiblings(in)
  THEN Val(in[1].t, in[1].s, in[1].l + 1, in[1].i \div TREE_ARITY, in[1].e)
  ELSE [t |-> "H", s |-> 0, l |-> 0, i |-> 0, e |-> FALSE, in |-> in]

\* ------------------------------------------------------------------------
\* scheduler_t: the work items of one tree over `leaves` leaf groups, in
\* post-order; leaf items are at layer 1
\* ------------------------------------------------------------------------
RECURSIVE LogA(_)
LogA(n) == IF n <= 1 THEN 0 ELSE 1 + LogA(n \div TREE_ARITY)

RECURSIVE PostOrder(_, _)
RECURSIVE PostOrderKids(_, _, _)
PostOrderKids(layer, node, k) ==
  IF k = TREE_ARITY THEN << >>
  ELSE PostOrder(layer - 1, node * TREE_ARITY + k) \o PostOrderKids(layer, node, k + 1)
PostOrder(layer, node) ==
  IF layer = 1 THEN << [layer |-> 1, node |-> node, is_leaf |-> TRUE] >>
  ELSE PostOrderKids(layer, node, 0)
         \o << [layer |-> layer, node |-> node, is_leaf |-> FALSE] >>

scheduler_t(leaves) == PostOrder(1 + LogA(leaves), 0)

\* ------------------------------------------------------------------------
\* State
\* ------------------------------------------------------------------------
VARIABLES
  cfg,            \* constructor arguments, SectorParameters, topology, pool sizes
  pc,             \* position of the main thread in hash() / hash_gpu()
  partition,      \* loop variable of hash()
  res,            \* resources[]: one gpu_resource_t per stream
  resource_num,   \* loop variable of the orchestrator's for loop
  all_done,       \* all_done of the orchestrator's while loop
  bufs,           \* host_bufs[]: the buf_to_disk_t objects (0 is nullptr)
  batch,          \* host_batches[]: the K pointers of each batch (0 is nullptr)
  pool_full, pool_empty, to_disk,  \* the three mtx_fifo_t queues of batch pointers
  unbundle, bundle, idx_unbundle, idx_bundle,  \* pc2_batcher_t
  wr,             \* disk writer threads: position and the batch held
  terminate, disk_writer_done,
  gpu_results_in_use,  \* the mutex: "free" or the acquirer
  ch,             \* channel_t<int>: the values sent and not yet received
  gpu_results_c, gpu_results_r, cpu_input_c, cpu_input_r,
  task,           \* the top-hash task of the 1-thread pool
  tree_c_partition_roots, tree_r_partition_roots,
  files,          \* per file and node slot: the values written, in order
  stray,          \* writes outside a file's slots: <<file, slot>>
  p_aux,          \* per sector: the field elements written to p_aux
  fault,          \* "none", or the fatal event that ended the process
  call,           \* a call of a function of the engine on its own: the arguments
  ret,            \* and what it returned
  fstree          \* the paths under the output directory: directories, files

vars == << cfg, pc, partition, res, resource_num, all_done, bufs, batch,
           pool_full, pool_empty, to_disk, unbundle, bundle, idx_unbundle,
           idx_bundle, wr, terminate, disk_writer_done, gpu_results_in_use, ch,
           gpu_results_c, gpu_results_r, cpu_input_c, cpu_input_r, task,
           tree_c_partition_roots, tree_r_partition_roots, files, stray, p_aux,
           fault, call, ret, fstree >>

\* ------------------------------------------------------------------------
\* Parameters (fields of pc2_t set by the constructor)
\* ------------------------------------------------------------------------
tree_r_only == cfg.tree_r_only
batch_size == cfg.batch_size
stream_count == cfg.stream_count
nodes_to_read == cfg.nodes_to_read
nodes_per_stream == nodes_to_read \div stream_count
GetNumTreeRCFiles == cfg.P
GetNumTreeRDiscardRows == cfg.D
\* the sector holds P partitions of nodes_to_read nodes
GetNumNodes == cfg.P * cfg.nodes_to_read
disk_io_batch_size == cfg.K
num_host_batches == cfg.NB
num_host_empty_batches == cfg.NE
num_writers == cfg.W
ngpus == cfg.ngpus
GetNumTreeRCArity == cfg.rc_arity

\* the two asserts at the head of the constructor body
ctor_preconditions ==
  /\ TREE_ARITY = GetNumTreeRCArity
  /\ nodes_to_read % stream_count = 0

\* hash_gpu entered without its assert
hash_gpu_unchecked == TRUE

\* the assert at the head of hash_gpu
hash_gpu_precondition == stream_count % ngpus = 0

\* the resources the constructor creates: stream_count / ngpus per GPU
Resources == 0 .. (ngpus * (stream_count \div ngpus) - 1)

Streams == 0 .. (stream_count - 1)
BufIds == 1 .. (num_host_batches * disk_io_batch_size)
BatchIds == 1 .. (num_host_batches + num_host_empty_batches)

tree_c_address ==
  tree_address_t(GetNumNodes \div GetNumTreeRCFiles, TREE_ARITY, NODE_SIZE, 0)
tree_r_address ==
  tree_address_t(GetNumNodes \div GetNumTreeRCFiles, TREE_ARITY, NODE_SIZE,
                 GetNumTreeRDiscardRows + 1)

cpu_nodes_to_hash == ((batch_size * stream_count) \div TREE_ARITY) \div TREE_ARITY
final_tree == tree_address_t(cpu_nodes_to_hash, TREE_ARITY, NODE_SIZE, 0)
final_gpu_offset_c == SubW(data_size(tree_c_address), data_size(final_tree))
final_gpu_offset_r == SubW(data_size(tree_r_address), data_size(final_tree))

\* the constructor going on whatever the leaf count of final_tree
final_tree_unchecked == TRUE

\* the assert of tree_address_t::tree_address_t for final_tree
final_tree_precondition == final_tree.ok

\* the same assert for the members tree_c_address and tree_r_address
member_preconditions == tree_c_address.ok /\ tree_r_address.ok

\* the offset tables: while (layer_offset >= TREE_ARITY) push_back; /= arity
RECURSIVE OffsetTable(_, _)
OffsetTable(offs, layer_offset) ==
  IF layer_offset >= TREE_ARITY
  THEN OffsetTable(Append(offs, layer_offset), layer_offset \div TREE_ARITY)
  ELSE offs

\* the tree-c table starting one layer up
layer_offsets_c_shifted == OffsetTable(<< >>, nodes_per_stream \div TREE_ARITY)

layer_offsets_c == OffsetTable(<< >>, nodes_per_stream)
layer_offsets_r ==
  OffsetTable(<< >>, SkipLayers(nodes_per_stream, TREE_ARITY,
                                GetNumTreeRDiscardRows + 1))

\* open_files: which data files are mapped, and the two flags
DataFileOpen(s) == (~tree_r_only) /\ s \in cfg.data
has_non_cc_sectors == \E s \in Sectors : DataFileOpen(s)

\* the files open_files creates: <<kind, sector, partition>>
TreeFileIds(kind) == {<<kind, s, p>> : s \in Sectors, p \in 0 .. (GetNumTreeRCFiles - 1)}
SealedFileIds == {<<"sealed", s, 0>> : s \in Sectors}
OpenedFiles ==
  TreeFileIds("r") \cup (IF tree_r_only THEN {} ELSE TreeFileIds("c") \cup SealedFileIds)

\* number of node slots of a file
FileSlots(f) ==
  IF f[1] = "c" THEN data_size(tree_c_address) \div NODE_SIZE
  ELSE IF f[1] = "r" THEN data_size(tree_r_address) \div NODE_SIZE
  ELSE GetNumNodes

\* ------------------------------------------------------------------------
\* Buffer pool and pc2_batcher_t, as operations on the pool state
\* ------------------------------------------------------------------------
PS == [batch |-> batch, pool_full |-> pool_full, pool_empty |-> pool_empty,
       to_disk |-> to_disk, unbundle |-> unbundle, bundle |-> bundle,
       idx_unbundle |-> idx_unbundle, idx_bundle |-> idx_bundle, fail |-> FALSE]

SetPS(ps) ==
  /\ batch' = ps.batch
  /\ pool_full' = ps.pool_full
  /\ pool_empty' = ps.pool_empty
  /\ to_disk' = ps.to_disk
  /\ unbundle' = ps.unbundle
  /\ bundle' = ps.bundle
  /\ idx_unbundle' = ps.idx_unbundle
  /\ idx_bundle' = ps.idx_bundle

\* pc2_batcher_t::size
BatcherSize(ps) ==
  Min((IF ps.unbundle = 0 THEN 0 ELSE disk_io_batch_size - ps.idx_unbundle)
        + Len(ps.pool_full) * disk_io_batch_size,
      (IF ps.bundle = 0 THEN 0 ELSE disk_io_batch_size - ps.idx_bundle)
        + Len(ps.pool_empty) * disk_io_batch_size)

\* pc2_batcher_t::pc2_batcher_t; a failed assert sets fail
BatcherConstruct(ps) ==
  IF ps.pool_full = << >> \/ ps.pool_empty = << >>
     \/ Head(ps.pool_full) = 0 \/ Head(ps.pool_empty) = 0
  THEN [ps EXCEPT !.fail = TRUE]
  ELSE [ps EXCEPT !.unbundle = Head(ps.pool_full), !.pool_full = Tail(ps.pool_full),
                  !.bundle = Head(ps.pool_empty), !.pool_empty = Tail(ps.pool_empty),
                  !.idx_unbundle = 0, !.idx_bundle = 0]

\* a dequeue that does not fetch the next batch from pool_full
BatcherDequeueNoRefill(ps) ==
  IF ps.unbundle = 0 THEN [ps |-> ps, buf |-> 0]
  ELSE LET buf == ps.batch[ps.unbundle][ps.idx_unbundle + 1]
           ps2 == [ps EXCEPT !.idx_unbundle = @ + 1]
       IN [ps |-> IF ps2.idx_unbundle = disk_io_batch_size
                  THEN [ps2 EXCEPT !.pool_empty = Append(@, ps2.unbundle),
                                   !.unbundle = 0, !.idx_unbundle = 0]
                  ELSE ps2,
           buf |-> buf]

\* pc2_batcher_t::dequeue: the pool state after, and the buffer returned
BatcherDequeue(ps) ==
  LET ps1 == IF ps.unbundle = 0 /\ ps.pool_full # << >>
             THEN [ps EXCEPT !.unbundle = Head(ps.pool_full),
                             !.pool_full = Tail(ps.pool_full)]
             ELSE ps
  IN IF ps1.unbundle = 0 THEN [ps |-> ps1, buf |-> 0]
     ELSE LET buf == ps1.batch[ps1.unbundle][ps1.idx_unbundle + 1]
              ps2 == [ps1 EXCEPT !.idx_unbundle = @ + 1]
          IN [ps |-> IF ps2.idx_unbundle = disk_io_batch_size
                     THEN [ps2 EXCEPT !.pool_empty = Append(@, ps2.unbundle),
                                      !.unbundle = 0, !.idx_unbundle = 0]
                     ELSE ps2,
              buf |-> buf]

\* an enqueue that drops the buffer
BatcherEnqueueDropped(ps, buf) == ps

\* pc2_batcher_t::enqueue; assert(false) when pool_empty has no batch
BatcherEnqueue(ps, buf) ==
  LET ps1 == IF ps.bundle = 0 /\ ps.pool_empty # << >>
             THEN [ps EXCEPT !.bundle = Head(ps.pool_empty),
                             !.pool_empty = Tail(ps.pool_empty)]
             ELSE ps
  IN IF ps1.bundle = 0 THEN [ps1 EXCEPT !.fail = TRUE]
     ELSE LET ps2 == [ps1 EXCEPT !.batch[ps1.bundle][ps1.idx_bundle + 1] = buf,
                                 !.idx_bundle = @ + 1]
          IN IF ps2.idx_bundle = disk_io_batch_size
             THEN [ps2 EXCEPT !.to_disk = Append(@, ps2.bundle),
                              !.bundle = 0, !.idx_bundle = 0]
             ELSE ps2

\* The indexes >= BATCH_SIZE of unbundle->batch that the padding loop of
\* flush reads when it starts at index idx (idx_unbundle advances by two
\* per iteration, idx_bundle by one)
FlushReadIdx(idx) ==
  {idx + 2 * m : m \in 0 .. (disk_io_batch_size - idx - 1)}
FlushOutOfBounds(idx) ==
  IF idx = 0 THEN {} ELSE {i \in FlushReadIdx(idx) : i >= disk_io_batch_size}

\* the while loop of flush on the pair <<pool state, host_bufs>>; oob gives
\* the pointer found at each index past the end of unbundle->batch
RECURSIVE FlushLoop(_, _, _)
FlushLoop(ps, bs, oob) ==
  IF ps.fail \/ ps.idx_bundle >= disk_io_batch_size THEN [ps |-> ps, bufs |-> bs]
  ELSE LET ptr == IF ps.idx_unbundle < disk_io_batch_size
                  THEN ps.batch[ps.unbundle][ps.idx_unbundle + 1]
                  ELSE oob[ps.idx_unbundle]
       IN IF ptr = 0 THEN [ps |-> [ps EXCEPT !.fail = TRUE], bufs |-> bs]
          ELSE FlushLoop([ps EXCEPT !.batch[ps.bundle][ps.idx_bundle + 1] = ptr,
                                    !.idx_bundle = @ + 1,
                                    !.idx_unbundle = @ + 2],
                         [bs EXCEPT ![ptr].size = 0], oob)

\* flush without the reset of bundle and unbundle at its end
BatcherFlushNoReset(ps, bs, oob) ==
  IF ps.idx_bundle # ps.idx_unbundle
  THEN [ps |-> [ps EXCEPT !.fail = TRUE], bufs |-> bs]
  ELSE IF ps.idx_bundle > 0
  THEN LET r == FlushLoop(ps, bs, oob)
       IN [ps |-> IF r.ps.fail THEN r.ps
                  ELSE [r.ps EXCEPT !.to_disk = Append(@, r.ps.bundle),
                                    !.pool_empty = Append(@, r.ps.unbundle),
                                    !.idx_unbundle = r.ps.idx_bundle],
           bufs |-> r.bufs]
  ELSE [ps |-> [ps EXCEPT !.pool_empty = IF ps.bundle # 0 THEN Append(@, ps.bundle) ELSE @,
                          !.pool_full = IF ps.unbundle # 0 THEN Append(@, ps.bundle) ELSE @],
        bufs |-> bs]

\* pc2_batcher_t::flush
BatcherFlush(ps, bs, oob) ==
  IF ps.idx_bundle # ps.idx_unbundle
  THEN [ps |-> [ps EXCEPT !.fail = TRUE], bufs |-> bs]
  ELSE IF ps.idx_bundle > 0
  THEN LET r == FlushLoop(ps, bs, oob)
       IN [ps |-> IF r.ps.fail THEN r.ps
                  ELSE [r.ps EXCEPT !.to_disk = Append(@, r.ps.bundle),
                                    !.pool_empty = Append(@, r.ps.unbundle),
                                    !.bundle = 0, !.unbundle = 0,
                                    !.idx_unbundle = 0, !.idx_bundle = 0],
           bufs |-> r.bufs]
  ELSE LET e1 == IF ps.bundle # 0 THEN Append(ps.pool_empty, ps.bundle)
                 ELSE ps.pool_empty
           f1 == IF ps.unbundle # 0 THEN Append(ps.pool_full, ps.bundle)
                 ELSE ps.pool_full
       IN [ps |-> [ps EXCEPT !.pool_empty = e1, !.pool_full = f1,
                             !.bundle = 0, !.unbundle = 0,
                             !.idx_unbundle = 0, !.idx_bundle = 0],
           bufs |-> bs]

\* ------------------------------------------------------------------------
\* hash_gpu: the per-resource state machine.  Each operator gives the
\* outcome of one visit of the switch for resource r as a record
\* [res, ps, bufs, mtx, fail]: the resource, the pool state, host_bufs and
\* the mutex after the visit; fail is a failed assert or a bad index.
\* ------------------------------------------------------------------------
NoItem == [layer |-> 0, node |-> 0, is_leaf |-> FALSE]
NoOp == [kind |-> "none", buf_c |-> 0, buf_r |-> 0, write_c |-> FALSE,
         write_r |-> FALSE]

Items == scheduler_t(nodes_per_stream \div batch_size)

Outcome(R, ps, bs, mtx) ==
  [res |-> R, ps |-> ps, bufs |-> bs, mtx |-> mtx, fail |-> ps.fail]
Blocked(r) == Outcome(res[r], PS, bufs, gpu_results_in_use)
Failed(r) == [Blocked(r) EXCEPT !.fail = TRUE]

\* IDLE advancing scheduler_c only
IdleSchedulerCOnly(r) ==
  LET R == res[r]
      wc == Items[R.pos_c + 1]
  IN Outcome([R EXCEPT !.last = (R.pos_c + 1 = Len(Items)),
                       !.pos_c = @ + 1, !.work_c = wc,
                       !.state = IF wc.is_leaf THEN "DATA_READ" ELSE "HASH_LEAF"],
             PS, bufs, gpu_results_in_use)

\* IDLE sending every work item to DATA_READ
IdleToRead(r) ==
  LET R == res[r]
  IN Outcome([R EXCEPT !.last = (R.pos_c + 1 = Len(Items)),
                       !.pos_c = @ + 1, !.work_c = Items[R.pos_c + 1],
                       !.pos_r = @ + 1, !.work_r = Items[R.pos_r + 1],
                       !.state = "DATA_READ"],
             PS, bufs, gpu_results_in_use)

\* case IDLE
Idle(r) ==
  LET R == res[r]
      wc == Items[R.pos_c + 1]
      wr_ == Items[R.pos_r + 1]
  IN Outcome([R EXCEPT !.last = (R.pos_c + 1 = Len(Items)),
                       !.pos_c = @ + 1, !.work_c = wc,
                       !.pos_r = @ + 1, !.work_r = wr_,
                       !.state = IF wc.is_leaf THEN "DATA_READ" ELSE "HASH_LEAF"],
             PS, bufs, gpu_results_in_use)

\* resource.start_node of case DATA_READ
StartNode(node, id, part) ==
  node * batch_size + nodes_per_stream * id + part * nodes_to_read

\* case DATA_READ
DataRead(r) ==
  LET R == res[r]
  IN Outcome([R EXCEPT !.start_node = StartNode(R.work_c.node, r, partition),
                       !.loading = TRUE, !.valid = FALSE,
                       !.state = "DATA_WAIT"],
             PS, bufs, gpu_results_in_use)

\* the layer 11 slice of the column buffer: element i + j * PARALLEL_SECTORS
\* is node first + j of sector i
Layer11Slice(first) ==
  [q \in 1 .. (PARALLEL_SECTORS * batch_size) |->
     Layer11((q - 1) % PARALLEL_SECTORS, first + ((q - 1) \div PARALLEL_SECTORS))]

\* the encode loop of case DATA_WAIT on encode_buf
Encode(encode_buf, start_node) ==
  [q \in 1 .. (PARALLEL_SECTORS * batch_size) |->
     LET i == (q - 1) % PARALLEL_SECTORS
         j == (q - 1) \div PARALLEL_SECTORS
     IN IF DataFileOpen(i) THEN FieldAdd(encode_buf[q], i, start_node + j)
        ELSE encode_buf[q]]

\* the write pointers of the sealed data
SealedWrite(b, start_node, data) ==
  [b EXCEPT !.size = batch_size, !.stride = PARALLEL_SECTORS, !.reverse = TRUE,
            !.offset = start_node, !.src = 1, !.dst = <<"sealed", 0>>,
            !.data = data]

\* case DATA_WAIT
DataWait(r) ==
  LET R == res[r]
      d == BatcherDequeue(PS)
      replica == Encode(Layer11Slice(R.column_data), R.start_node)
  IN IF ~R.valid THEN Blocked(r)
     ELSE IF tree_r_only
     THEN Outcome([R EXCEPT !.replica_data = replica,
                            !.state = "HASH_COLUMN_LEAVES"],
                  PS, bufs, gpu_results_in_use)
     ELSE IF BatcherSize(PS) < 1 THEN Blocked(r)
     ELSE IF d.buf = 0 THEN Failed(r)
     ELSE Outcome([R EXCEPT !.replica_data = replica, !.state = "HASH_COLUMN"],
                  BatcherEnqueue(d.ps, d.buf),
                  [bufs EXCEPT ![d.buf] = SealedWrite(@, R.start_node, replica)],
                  gpu_results_in_use)

\* to_disk of a tree write of `size` nodes per sector at byte offset `off`
TreeWrite(b, kind, size, off) ==
  [b EXCEPT !.size = size, !.stride = 1, !.reverse = FALSE,
            !.offset = off \div NODE_SIZE, !.src = size,
            !.dst = <<kind, partition>>]

\* byte offset of the column hashes of work item w of stream r (tree-c)
ColumnOffset(w, r) ==
  address(tree_c_address, w.layer - 1,
          w.node * batch_size + layer_offsets_c[w.layer] * r)

\* byte offset of the tree-c nodes of work item w of stream r
TreeCOffset(w, r) ==
  address(tree_c_address, w.layer,
          (w.node * batch_size) \div TREE_ARITY + layer_offsets_c[w.layer + 1] * r)

\* byte offset of the tree-r nodes of work item w of stream r
TreeROffset(w, r) ==
  address(tree_r_address, w.layer - GetNumTreeRDiscardRows - 1,
          (w.node * batch_size) \div TREE_ARITY
            + layer_offsets_r[w.layer - GetNumTreeRDiscardRows] * r)

\* the table and layer indexes used are inside the vectors
ColumnIndexOk(w) ==
  /\ w.layer - 1 >= 0 /\ w.layer - 1 < Len(layer_offsets_c)
  /\ AddressInRange(tree_c_address, w.layer - 1)
TreeCIndexOk(w) ==
  /\ w.layer < Len(layer_offsets_c) /\ AddressInRange(tree_c_address, w.layer)
TreeRIndexOk(w) ==
  /\ w.layer - GetNumTreeRDiscardRows - 1 >= 0
  /\ w.layer - GetNumTreeRDiscardRows - 1 < Len(layer_offsets_r)
  /\ AddressInRange(tree_r_address, w.layer - GetNumTreeRDiscardRows - 1)

\* case HASH_COLUMN
HashColumn(r) ==
  LET R == res[r]
      d == BatcherDequeue(PS)
  IN IF BatcherSize(PS) < 1 THEN Blocked(r)
     ELSE IF d.buf = 0 \/ ~ColumnIndexOk(R.work_c) THEN Failed(r)
     ELSE Outcome([R EXCEPT !.async_done = FALSE,
                            !.op = [NoOp EXCEPT !.kind = "col", !.buf_c = d.buf],
                            !.state = "HASH_COLUMN_LEAVES"],
                  d.ps,
                  [bufs EXCEPT ![d.buf] =
                     TreeWrite(@, "c", batch_size, ColumnOffset(R.work_c, r))],
                  gpu_results_in_use)

\* case HASH_COLUMN_LEAVES
HashColumnLeaves(r) ==
  LET R == res[r]
      d == BatcherDequeue(PS)
  IN IF ~R.async_done THEN Blocked(r)
     ELSE IF tree_r_only
     THEN Outcome([R EXCEPT !.async_done = FALSE,
                            !.op = [NoOp EXCEPT !.kind = "leaves"],
                            !.state = "HASH_WAIT"],
                  PS, bufs, gpu_results_in_use)
     ELSE IF BatcherSize(PS) < 1 THEN Blocked(r)
     ELSE IF d.buf = 0 \/ ~TreeCIndexOk(R.work_c) THEN Failed(r)
     ELSE Outcome([R EXCEPT !.async_done = FALSE,
                            !.op = [NoOp EXCEPT !.kind = "leaves", !.buf_c = d.buf,
                                                !.write_c = TRUE],
                            !.state = "HASH_WAIT"],
                  d.ps,
                  [bufs EXCEPT ![d.buf] =
                     TreeWrite(@, "c", batch_size \div TREE_ARITY,
                               TreeCOffset(R.work_c, r))],
                  gpu_results_in_use)

\* HASH_LEAF counting no buffer for tree-r
WriteTreeRNever(w) == FALSE

\* write_tree_r of case HASH_LEAF
WriteTreeR(w) == w.layer > GetNumTreeRDiscardRows

\* HASH_LEAF without the try_lock of gpu_results_in_use
LockNeverBusy(R) == FALSE

\* the try_lock of case HASH_LEAF is needed and fails
LockBusy(R) == R.last /\ gpu_results_in_use # "free"

\* case HASH_LEAF
HashLeaf(r) ==
  LET R == res[r]
      write_tree_c == ~tree_r_only
      write_tree_r == WriteTreeR(R.work_r)
      disk_bufs_needed == (IF write_tree_c THEN 1 ELSE 0) + (IF write_tree_r THEN 1 ELSE 0)
      dc == IF write_tree_c THEN BatcherDequeue(PS) ELSE [ps |-> PS, buf |-> 0]
      dr == IF write_tree_r THEN BatcherDequeue(dc.ps) ELSE [ps |-> dc.ps, buf |-> 0]
      b1 == IF write_tree_c /\ dc.buf # 0
            THEN [bufs EXCEPT ![dc.buf] =
                    TreeWrite(@, "c", batch_size \div TREE_ARITY,
                              TreeCOffset(R.work_c, r))]
            ELSE bufs
      b2 == IF write_tree_r /\ dr.buf # 0
            THEN [b1 EXCEPT ![dr.buf] =
                    TreeWrite(@, "r", batch_size \div TREE_ARITY,
                              TreeROffset(R.work_r, r))]
            ELSE b1
  IN IF BatcherSize(PS) < disk_bufs_needed THEN Blocked(r)
     ELSE IF LockBusy(R) THEN Blocked(r)
     ELSE IF \/ (write_tree_c /\ (dc.buf = 0 \/ ~TreeCIndexOk(R.work_c)))
             \/ (write_tree_r /\ (dr.buf = 0 \/ ~TreeRIndexOk(R.work_r)))
     THEN Failed(r)
     ELSE Outcome([R EXCEPT !.async_done = FALSE,
                            !.op = [NoOp EXCEPT !.kind = "leaf",
                                                !.buf_c = dc.buf, !.buf_r = dr.buf,
                                                !.write_c = write_tree_c,
                                                !.write_r = write_tree_r],
                            !.state = "HASH_WAIT"],
                  dr.ps, b2,
                  IF R.last THEN "gpu" ELSE gpu_results_in_use)

\* HASH_WAIT going on without looking at async_done
HashWaitNoCheck(r) ==
  Outcome([res[r] EXCEPT !.state = IF res[r].last THEN "DONE" ELSE "IDLE"],
          PS, bufs, gpu_results_in_use)

\* case HASH_WAIT
HashWait(r) ==
  LET R == res[r]
  IN IF ~R.async_done THEN Blocked(r)
     ELSE Outcome([R EXCEPT !.state = IF R.last THEN "DONE" ELSE "IDLE"],
                  PS, bufs, gpu_results_in_use)

\* ------------------------------------------------------------------------
\* GPU work queued on a stream by one visit, run in stream order before the
\* completion callback.  Device buffers hold, per sector, consecutive
\* nodes: element s * count + j is node j of sector s.
\* ------------------------------------------------------------------------
\* hash_batch_device of poseidon_columns on the loaded columns
ColumnHashes(first) ==
  [q \in 1 .. (PARALLEL_SECTORS * batch_size) |->
     ColumnHash((q - 1) \div batch_size, first + ((q - 1) % batch_size))]

\* hash_batch_device with stride 1: every TREE_ARITY consecutive elements
HashGroups(d) ==
  [q \in 1 .. (Len(d) \div TREE_ARITY) |->
     Poseidon([k \in 1 .. TREE_ARITY |-> d[(q - 1) * TREE_ARITY + k]])]

\* hash_batch_device with stride PARALLEL_SECTORS on the last-layer slot
\* (element i + j * PARALLEL_SECTORS is node j of sector i)
HashInterleaved(d) ==
  LET count == batch_size \div TREE_ARITY
  IN [q \in 1 .. (PARALLEL_SECTORS * count) |->
        LET s == (q - 1) \div count
            j == (q - 1) % count
        IN Poseidon([k \in 1 .. TREE_ARITY |->
                       d[s + (j * TREE_ARITY + (k - 1)) * PARALLEL_SECTORS + 1]])]

\* hash_batch_device_ptrs: the TREE_ARITY input buffers of a sector, one
\* after the other, hashed TREE_ARITY elements at a time
HashPtrs(ins) ==
  LET count == batch_size \div TREE_ARITY
  IN [q \in 1 .. (PARALLEL_SECTORS * count) |->
        LET s == (q - 1) \div count
            m == (q - 1) % count
        IN Poseidon([k \in 1 .. TREE_ARITY |->
                       LET e == m * TREE_ARITY + (k - 1)
                       IN ins[(e \div count) + 1][s * count + (e % count) + 1]])]

\* position in Items of the work item (layer, node)
PosOf(layer, node) ==
  CHOOSE q \in 1 .. Len(Items) : Items[q].layer = layer /\ Items[q].node = node

\* work.inputs of an internal work item: the output buffers of its children
Inputs(g, w) ==
  [k \in 1 .. TREE_ARITY |-> g[PosOf(w.layer - 1, w.node * TREE_ARITY + (k - 1))]]

\* resource.id * stride elements into gpu_results: the chunk of stream r
Stash(results, r, d) ==
  LET stride == (batch_size * PARALLEL_SECTORS) \div TREE_ARITY
  IN [q \in DOMAIN results |->
        IF q > r * stride /\ q <= (r + 1) * stride /\ q - r * stride <= Len(d)
        THEN d[q - r * stride] ELSE results[q]]

SetData(bs, b, d) == IF b = 0 THEN bs ELSE [bs EXCEPT ![b].data = d]

\* what the stream of resource r does for the queued work: the resource,
\* host_bufs and gpu_results_c / gpu_results_r after it
GpuWork(r) ==
  LET R == res[r]
      op == R.op
      pos == R.pos_c
  IN IF op.kind = "col"
     THEN LET out_c == ColumnHashes(R.column_data)
          IN [res |-> [R EXCEPT !.gc[pos] = out_c,
                                !.dev_last = Layer11Slice(R.column_data)],
              bufs |-> SetData(bufs, op.buf_c, out_c),
              rc |-> gpu_results_c, rr |-> gpu_results_r]
     ELSE IF op.kind = "leaves"
     THEN LET out_c == IF tree_r_only THEN R.gc[pos] ELSE HashGroups(R.gc[pos])
              dev == IF has_non_cc_sectors \/ tree_r_only
                     THEN R.replica_data ELSE R.dev_last
              out_r == HashInterleaved(dev)
          IN [res |-> [R EXCEPT !.gc[pos] = out_c, !.gr[pos] = out_r,
                                !.dev_last = dev],
              bufs |-> IF tree_r_only THEN bufs ELSE SetData(bufs, op.buf_c, out_c),
              rc |-> gpu_results_c, rr |-> gpu_results_r]
     ELSE LET out_c == IF tree_r_only THEN R.gc[pos]
                       ELSE HashPtrs(Inputs(R.gc, R.work_c))
              out_r == HashPtrs(Inputs(R.gr, R.work_r))
              b1 == IF tree_r_only THEN bufs ELSE SetData(bufs, op.buf_c, out_c)
              rc == IF R.last /\ ~tree_r_only
                    THEN Stash(gpu_results_c, r, b1[op.buf_c].data)
                    ELSE gpu_results_c
              rr == IF R.last THEN Stash(gpu_results_r, r, out_r) ELSE gpu_results_r
              b2 == IF op.write_r THEN SetData(b1, op.buf_r, out_r) ELSE b1
          IN [res |-> [R EXCEPT !.gc[pos] = out_c, !.gr[pos] = out_r],
              bufs |-> b2, rc |-> rc, rr |-> rr]

\* the lambda given to cuda_notify.schedule: the pool state after it
CallbackEnqueue(r) ==
  LET op == res[r].op
      p1 == IF op.kind = "col" \/ (op.kind = "leaves" /\ ~tree_r_only)
               \/ (op.kind = "leaf" /\ op.write_c)
            THEN BatcherEnqueue(PS, op.buf_c) ELSE PS
  IN IF op.kind = "leaf" /\ op.write_r /\ ~p1.fail
     THEN BatcherEnqueue(p1, op.buf_r) ELSE p1

\* the test of the lambda of case HASH_LEAF on the resource it finds:
\* if (resources[resource_num]->last)
LeafLambdaUnlocks(R) == R.op.kind = "leaf" /\ R.last

\* the lambda of case HASH_LEAF releasing the mutex for every work item
CallbackUnlocksAlways(r) == res[r].op.kind = "leaf"

\* the lambda of case HASH_LEAF releases the mutex for the last work item
CallbackUnlocks(r) == LeafLambdaUnlocks(res[r])

\* ------------------------------------------------------------------------
\* process_writes: the writes of one batch
\* ------------------------------------------------------------------------
\* element j of what is written for sector i: src[i][j * stride]
SrcAt(b, i, j) ==
  LET q == i * b.src + j * b.stride + 1
  IN IF q <= Len(b.data) THEN b.data[q] ELSE Uninit

\* write_data(offset, ., size) on dst[i] for every sector i
WriteBuf(fs, b) ==
  LET hit(f) == f[1] = b.dst[1] /\ f[3] = b.dst[2]
      slots == b.offset .. (b.offset + b.size - 1)
  IN [files |-> [f \in DOMAIN fs.files |->
                   IF hit(f)
                   THEN [slot \in DOMAIN fs.files[f] |->
                           IF slot \in slots
                           THEN Append(fs.files[f][slot], SrcAt(b, f[2], slot - b.offset))
                           ELSE fs.files[f][slot]]
                   ELSE fs.files[f]],
      stray |-> fs.stray \cup
                  {<<f, slot>> : f \in {g \in DOMAIN fs.files : hit(g)},
                                 slot \in {x \in slots : x >= FileSlots(<<b.dst[1], 0, 0>>)}},
      fail |-> fs.fail \/ ~(\E f \in DOMAIN fs.files : hit(f))]

\* the for loop over the elements of a batch, from element k on
RECURSIVE WriteBatch(_, _, _, _)
WriteBatch(fs, bt, bs, k) ==
  IF k > Len(bt) THEN fs
  ELSE IF bt[k] = 0 \/ bs[bt[k]].size = 0 THEN WriteBatch(fs, bt, bs, k + 1)
  ELSE WriteBatch(WriteBuf(fs, bs[bt[k]]), bt, bs, k + 1)

\* mtx_fifo_t::is_full of the pool the writers return batches to
PoolIsFull == Len(pool_full) >= num_host_batches + num_host_empty_batches

\* ------------------------------------------------------------------------
\* hash_cpu
\* ------------------------------------------------------------------------
group_size == batch_size \div TREE_ARITY

\* the input index of a layout with the nodes of a sector side by side
CpuInputIndexFlat(sector, m) == sector * group_size * stream_count + m

\* in[i] of a leaf work item of hash_cpu: input index of leaf input node m
CpuInputIndex(sector, m) ==
  (m \div group_size) * group_size * PARALLEL_SECTORS
    + sector * group_size + (m % group_size)

InputAt(input, q) == IF q + 1 \in DOMAIN input THEN input[q + 1] ELSE Uninit

\* the node the work item (layer, node) of hash_cpu produces for a sector
RECURSIVE CpuNode(_, _, _, _)
CpuNode(input, sector, layer, node) ==
  IF layer = 1
  THEN Poseidon([k \in 1 .. TREE_ARITY |->
                   InputAt(input, CpuInputIndex(sector, node * TREE_ARITY + (k - 1)))])
  ELSE Poseidon([k \in 1 .. TREE_ARITY |->
                   CpuNode(input, sector, layer - 1, node * TREE_ARITY + (k - 1))])

CpuItems == scheduler_t(cpu_nodes_to_hash)

\* the assert at the head of hash_cpu
hash_cpu_precondition == group_size % TREE_ARITY = 0

\* node slot of the file that hash_func writes for work item w
CpuSlot(w, file_offset) ==
  AddW(address(final_tree, w.layer - 1, w.node), file_offset) \div NODE_SIZE

\* the writes of hash_cpu (one node per sector for every work item, in the
\* order of the work items)
CpuWrites(fs, kind, part, input, file_offset) ==
  LET hit(f) == f[1] = kind /\ f[3] = part
      at(slot) == SelectSeq(CpuItems, LAMBDA w : CpuSlot(w, file_offset) = slot)
      slots == {CpuSlot(CpuItems[k], file_offset) : k \in DOMAIN CpuItems}
  IN [files |-> [f \in DOMAIN fs.files |->
                   IF hit(f)
                   THEN [slot \in DOMAIN fs.files[f] |->
                           fs.files[f][slot] \o
                             [k \in 1 .. Len(at(slot)) |->
                                CpuNode(input, f[2], at(slot)[k].layer, at(slot)[k].node)]]
                   ELSE fs.files[f]],
      stray |-> fs.stray \cup
                  UNION {{<<f, slot>> : slot \in {x \in slots : x \notin DOMAIN fs.files[f]}} :
                           f \in {g \in DOMAIN fs.files : hit(g)}},
      fail |-> fs.fail]

\* memcpy(roots, host_buf, ...) with roots = &partition_roots[partition * S]
CpuRoots(roots, part, input) ==
  [q \in DOMAIN roots |->
     IF q > part * PARALLEL_SECTORS /\ q <= (part + 1) * PARALLEL_SECTORS
     THEN CpuNode(input, q - 1 - part * PARALLEL_SECTORS,
                  1 + LogA(cpu_nodes_to_hash), 0)
     ELSE roots[q]]

\* the memcpy of the roots of partition part runs past the end of the vector
RootsOverflow(part) == (part + 1) * PARALLEL_SECTORS > PARALLEL_SECTORS * TREE_ARITY

\* ------------------------------------------------------------------------
\* write_roots: the two field elements written to p_aux of a sector
\* ------------------------------------------------------------------------
RootsIn(roots, sector) ==
  [k \in 1 .. TREE_ARITY |-> roots[(k - 1) * PARALLEL_SECTORS + sector + 1]]

write_roots_unmasked(roots_c, roots_r, sector) ==
  IF GetNumTreeRCFiles > 1
  THEN << Poseidon(RootsIn(roots_c, sector)), Poseidon(RootsIn(roots_r, sector)) >>
  ELSE << roots_c[sector + 1], roots_r[sector + 1] >>

write_roots_hashed(roots_c, roots_r, sector) ==
  << IF tree_r_only THEN Zero ELSE Poseidon(RootsIn(roots_c, sector)),
     Poseidon(RootsIn(roots_r, sector)) >>

write_roots(roots_c, roots_r, sector) ==
  IF GetNumTreeRCFiles > 1
  THEN << IF tree_r_only THEN Zero ELSE Poseidon(RootsIn(roots_c, sector)),
          Poseidon(RootsIn(roots_r, sector)) >>
  ELSE << IF tree_r_only THEN Zero ELSE roots_c[sector + 1],
          roots_r[sector + 1] >>

\* ------------------------------------------------------------------------
\* Configurations
\* ------------------------------------------------------------------------
Config(tro, D, P, data, n, B, sc, K, NB, NE, W) ==
  [tree_r_only |-> tro, D |-> D, P |-> P, data |-> data, nodes_to_read |-> n,
   batch_size |-> B, stream_count |-> sc, ngpus |-> 1, rc_arity |-> TREE_ARITY,
   K |-> K, NB |-> NB, NE |-> NE, W |-> W]

\* every value of GetNumTreeRDiscardRows in [0, log_A(leaves))
DiscardRows(n) == 0 .. (LogA(n) - 1)

\* one stream, a pool of two full and two empty batches of two buffers:
\* every tree layout
LayoutConfigs ==
  { Config(tro, D, P, {0}, 16, 8, 1, 2, 2, 2, 1) :
      tro \in BOOLEAN, D \in DiscardRows(16), P \in 1 .. MaxPartitions }

\* every choice of the sectors that come with a data file
DataConfigs ==
  { Config(tro, 2, 1, data, 16, 8, 1, 2, 2, 2, 1) :
      tro \in BOOLEAN, data \in SUBSET Sectors }

\* every pool configuration
PoolConfigs ==
  { Config(tro, D, 2, {0}, 16, 8, 1, K, NB, NE, 1) :
      tro \in BOOLEAN, D \in {0, 2}, K \in 2 .. MaxBatchSize,
      NB \in 1 .. MaxHostBatches, NE \in 1 .. MaxHostBatches }

\* the same inputs with one stream and with two streams; batch_size *
\* stream_count / TREE_ARITY^2 is a multiple of TREE_ARITY for both, as the
\* constructor requires
StreamConfigs ==
  { Config(FALSE, 2, 1, {0}, 32, 8, sc, 2, 1, 1, 1) : sc \in 1 .. 2 }
    \cup { Config(TRUE, D, 2, {0}, 32, 8, sc, 2, 2, 2, 1) : sc \in 1 .. 2, D \in {0, 3} }

\* a deeper tree per stream (four leaf work items), one full batch
DeepConfigs ==
  { Config(FALSE, 2, 1, {0}, 32, 8, 1, K, 1, 1, 1) : K \in 2 .. MaxBatchSize }

\* two disk writers
WriterConfigs ==
  { Config(FALSE, 0, 1, {0}, 16, 8, 1, 2, 2, 2, 2) }

Configs ==
  LayoutConfigs \cup DataConfigs \cup PoolConfigs \cup StreamConfigs
    \cup DeepConfigs \cup WriterConfigs

\* ------------------------------------------------------------------------
\* Initial state: the engine as the constructor leaves it
\* ------------------------------------------------------------------------
\* gpu_resource_t::gpu_resource_t and gpu_resource_t::reset
NewResource(r) ==
  [id |-> r, state |-> "IDLE", last |-> FALSE, async_done |-> TRUE,
   pos_c |-> 0, pos_r |-> 0, work_c |-> NoItem, work_r |-> NoItem,
   start_node |-> 0, loading |-> FALSE, valid |-> FALSE, column_data |-> 0,
   replica_data |-> << >>, dev_last |-> << >>,
   gc |-> [q \in 1 .. Len(Items) |-> << >>],
   gr |-> [q \in 1 .. Len(Items) |-> << >>],
   op |-> NoOp]

NewBuf == [size |-> 0, stride |-> 0, reverse |-> FALSE, offset |-> 0, src |-> 0,
           dst |-> <<"none", 0>>, data |-> << >>]

NoCall == [op |-> "none"]

\* the directory tree, followed only in the file layout specification
NoFs == [dirs |-> {}, files |-> {}]

\* the engine after construction
EngineInit ==
  /\ cfg \in Configs
  /\ pc = "hash"
  /\ partition = 0
  /\ res = [r \in Resources |-> NewResource(r)]
  /\ resource_num = 0
  /\ all_done = FALSE
  /\ bufs = [b \in BufIds |-> NewBuf]
  /\ batch = [i \in BatchIds |->
                [j \in 1 .. disk_io_batch_size |->
                   IF i <= num_host_batches
                   THEN (i - 1) * disk_io_batch_size + j ELSE 0]]
  /\ pool_full = [i \in 1 .. num_host_batches |-> i]
  /\ pool_empty = [i \in 1 .. num_host_empty_batches |-> num_host_batches + i]
  /\ to_disk = << >>
  /\ unbundle = 0 /\ bundle = 0 /\ idx_unbundle = 0 /\ idx_bundle = 0
  /\ wr = [w \in 1 .. num_writers |-> [pc |-> "off", held |-> 0]]
  /\ terminate = FALSE
  /\ disk_writer_done = 0
  /\ gpu_results_in_use = "free"
  /\ ch = << >>
  /\ gpu_results_c = [q \in 1 .. (IF tree_r_only THEN 0
                                  ELSE ((batch_size * PARALLEL_SECTORS) \div TREE_ARITY)
                                         * stream_count) |-> Uninit]
  /\ gpu_results_r = [q \in 1 .. (((batch_size * PARALLEL_SECTORS) \div TREE_ARITY)
                                    * stream_count) |-> Uninit]
  /\ cpu_input_c = gpu_results_c
  /\ cpu_input_r = gpu_results_r
  /\ task = [pc |-> "idle", partition |-> 0]
  /\ tree_c_partition_roots = [q \in 1 .. (PARALLEL_SECTORS * TREE_ARITY) |-> Uninit]
  /\ tree_r_partition_roots = [q \in 1 .. (PARALLEL_SECTORS * TREE_ARITY) |-> Uninit]
  /\ files = [f \in OpenedFiles |-> [slot \in 0 .. (FileSlots(f) - 1) |-> << >>]]
  /\ stray = {}
  /\ p_aux = [s \in Sectors |-> << >>]
  /\ fault = "none"

Init ==
  /\ EngineInit
  /\ call = NoCall
  /\ ret = NoCall
  /\ fstree = NoFs

\* ------------------------------------------------------------------------
\* Actions
\* ------------------------------------------------------------------------
poolvars == << batch, pool_full, pool_empty, to_disk, unbundle, bundle,
               idx_unbundle, idx_bundle >>
gpuvars == << gpu_results_c, gpu_results_r >>
cpuvars == << cpu_input_c, cpu_input_r, task, tree_c_partition_roots,
              tree_r_partition_roots >>
writervars == << wr, terminate, disk_writer_done >>
loopvars == << resource_num, all_done >>
filevars == << files, stray >>

Running == fault = "none"

\* a failed assert, a null dereference or a bad index ends the process
Abort(why) == fault' = why /\ pc' = "aborted"

\* pc2_t::hash up to the partition loop: ch.send(-1)
HashStart ==
  /\ Running /\ pc = "hash"
  /\ ch' = Append(ch, -1)
  /\ pc' = "hash_gpu"
  /\ UNCHANGED << cfg, call, ret, fstree, partition, res, loopvars, bufs, poolvars, writervars,
                  gpu_results_in_use, gpuvars, cpuvars, filevars, p_aux, fault >>

\* hash_gpu up to the while loop: reset the resources, spawn the writers,
\* construct the batcher
HashGpuBegin ==
  /\ Running /\ pc = "hash_gpu"
  /\ LET ps == BatcherConstruct(PS)
     IN IF (~hash_gpu_precondition) \/ ps.fail
        THEN /\ Abort("assert")
             /\ UNCHANGED << res, loopvars, poolvars, writervars >>
        ELSE /\ res' = [r \in Resources |->
                          [res[r] EXCEPT !.state = "IDLE", !.last = FALSE,
                                         !.async_done = TRUE,
                                         !.pos_c = 0, !.pos_r = 0]]
             /\ wr' = [w \in 1 .. num_writers |-> [pc |-> "loop", held |-> 0]]
             /\ terminate' = FALSE
             /\ disk_writer_done' = num_writers
             /\ SetPS(ps)
             /\ resource_num' = 0
             /\ all_done' = FALSE
             /\ pc' = "loop"
             /\ UNCHANGED fault
  /\ UNCHANGED << cfg, call, ret, fstree, partition, bufs, gpu_results_in_use, ch, gpuvars, cpuvars,
                  filevars, p_aux >>

\* one iteration of the for loop over the resources, for a resource in
\* state st whose case of the switch is Case
Visit(st, Case(_)) ==
  /\ Running /\ pc = "loop"
  /\ res[resource_num].state = st
  /\ LET r == resource_num
         o == Case(r)
         ad == (IF r = 0 THEN TRUE ELSE all_done) /\ st = "DONE"
     IN IF o.fail
        THEN /\ Abort("assert")
             /\ UNCHANGED << res, poolvars, bufs, gpu_results_in_use, loopvars >>
        ELSE /\ res' = [res EXCEPT ![r] = o.res]
             /\ SetPS(o.ps)
             /\ bufs' = o.bufs
             /\ gpu_results_in_use' = o.mtx
             /\ all_done' = ad
             /\ resource_num' = (r + 1) % stream_count
             /\ pc' = IF r = stream_count - 1 /\ ad THEN "sync" ELSE "loop"
             /\ UNCHANGED fault
  /\ UNCHANGED << cfg, call, ret, fstree, partition, writervars, ch, gpuvars, cpuvars, filevars, p_aux >>

VisitDone == Visit("DONE", Blocked)
VisitIdle == Visit("IDLE", Idle)
VisitDataRead == Visit("DATA_READ", DataRead)
VisitDataWait == Visit("DATA_WAIT", DataWait)
VisitHashColumn == Visit("HASH_COLUMN", HashColumn)
VisitHashColumnLeaves == Visit("HASH_COLUMN_LEAVES", HashColumnLeaves)
VisitHashLeaf == Visit("HASH_LEAF", HashLeaf)
VisitHashWait == Visit("HASH_WAIT", HashWait)

\* the reader completes load_layers for resource r: valid reaches valid_count
ReaderDone(r) ==
  /\ Running /\ res[r].loading
  /\ res' = [res EXCEPT ![r].loading = FALSE, ![r].valid = TRUE,
                        ![r].column_data = res[r].start_node]
  /\ UNCHANGED << cfg, call, ret, fstree, pc, partition, loopvars, bufs, poolvars, writervars,
                  gpu_results_in_use, ch, gpuvars, cpuvars, filevars, p_aux, fault >>

\* the stream of resource r runs the work queued by a visit (kernels and
\* copies to the host), then the completion callback given to
\* cuda_notify.schedule
Callback(r) ==
  /\ Running /\ res[r].op.kind # "none"
  /\ LET g == GpuWork(r)
         ps == CallbackEnqueue(r)
     IN IF ps.fail
        THEN /\ Abort("assert")
             /\ UNCHANGED << res, poolvars, bufs, gpuvars, gpu_results_in_use >>
        ELSE /\ SetPS(ps)
             /\ res' = [res EXCEPT ![r] = [g.res EXCEPT !.async_done = TRUE,
                                                        !.op = NoOp]]
             /\ bufs' = g.bufs
             /\ gpu_results_c' = g.rc
             /\ gpu_results_r' = g.rr
             /\ gpu_results_in_use' =
                  IF CallbackUnlocks(r) THEN "free" ELSE gpu_results_in_use
             /\ UNCHANGED << pc, fault >>
  /\ UNCHANGED << cfg, call, ret, fstree, partition, loopvars, writervars, ch, cpuvars, filevars,
                  p_aux >>

\* process_writes: to_disk_fifo.dequeue() returns a batch
WriterTake(w) ==
  /\ Running /\ wr[w].pc = "loop"
  /\ ~PoolIsFull /\ to_disk # << >>
  /\ wr' = [wr EXCEPT ![w] = [pc |-> "write", held |-> Head(to_disk)]]
  /\ to_disk' = Tail(to_disk)
  /\ UNCHANGED << cfg, call, ret, fstree, pc, partition, res, loopvars, bufs, batch, pool_full,
                  pool_empty, unbundle, bundle, idx_unbundle, idx_bundle,
                  terminate, disk_writer_done, gpu_results_in_use, ch, gpuvars,
                  cpuvars, filevars, p_aux, fault >>

\* process_writes: the writes of the batch, then pool.enqueue(to_disk_batch)
WriterWrite(w) ==
  /\ Running /\ wr[w].pc = "write"
  /\ LET fs == WriteBatch([files |-> files, stray |-> stray, fail |-> FALSE],
                          batch[wr[w].held], bufs, 1)
     IN IF fs.fail
        THEN /\ Abort("segv")
             /\ UNCHANGED << wr, pool_full, filevars >>
        ELSE /\ files' = fs.files
             /\ stray' = fs.stray
             /\ pool_full' = Append(pool_full, wr[w].held)
             /\ wr' = [wr EXCEPT ![w] = [pc |-> "loop", held |-> 0]]
             /\ UNCHANGED << pc, fault >>
  /\ UNCHANGED << cfg, call, ret, fstree, partition, res, loopvars, bufs, batch, pool_empty, to_disk,
                  unbundle, bundle, idx_unbundle, idx_bundle, terminate,
                  disk_writer_done, gpu_results_in_use, ch, gpuvars, cpuvars,
                  p_aux >>

\* process_writes: the while condition is false; disk_writer_done--
WriterExit(w) ==
  /\ Running /\ wr[w].pc = "loop"
  /\ terminate /\ to_disk = << >>
  /\ wr' = [wr EXCEPT ![w].pc = "off"]
  /\ disk_writer_done' = disk_writer_done - 1
  /\ UNCHANGED << cfg, call, ret, fstree, pc, partition, res, loopvars, bufs, poolvars, terminate,
                  gpu_results_in_use, ch, gpuvars, cpuvars, filevars, p_aux, fault >>

\* hash_gpu after the while loop: stream syncs, disk_batcher.flush(),
\* terminate = true
HashGpuFlush ==
  /\ Running /\ pc = "sync"
  /\ \E oob \in [FlushOutOfBounds(idx_unbundle) -> 0 .. (num_host_batches * disk_io_batch_size)] :
       LET f == BatcherFlush(PS, bufs, oob)
       IN IF f.ps.fail
          THEN /\ Abort(IF idx_bundle # idx_unbundle THEN "assert" ELSE "segv")
               /\ UNCHANGED << poolvars, bufs, terminate >>
          ELSE /\ SetPS(f.ps)
               /\ bufs' = f.bufs
               /\ terminate' = TRUE
               /\ pc' = "wait"
               /\ UNCHANGED fault
  /\ UNCHANGED << cfg, call, ret, fstree, partition, res, loopvars, wr, disk_writer_done,
                  gpu_results_in_use, ch, gpuvars, cpuvars, filevars, p_aux >>

\* hash_gpu: while (disk_writer_done > 0) {} and the destructors of the
\* locals (~pc2_batcher_t flushes again)
HashGpuReturn ==
  /\ Running /\ pc = "wait"
  /\ disk_writer_done = 0
  /\ LET f == BatcherFlush(PS, bufs, [i \in {} |-> 0])
     IN IF f.ps.fail
        THEN /\ Abort("assert")
             /\ UNCHANGED << poolvars, bufs >>
        ELSE /\ SetPS(f.ps)
             /\ bufs' = f.bufs
             /\ pc' = "lock"
             /\ UNCHANGED fault
  /\ UNCHANGED << cfg, call, ret, fstree, partition, res, loopvars, writervars, gpu_results_in_use,
                  ch, gpuvars, cpuvars, filevars, p_aux >>

\* hash going on to ch.recv() without gpu_results_in_use.lock()
LockSkipped ==
  /\ Running /\ pc = "lock"
  /\ gpu_results_in_use' = gpu_results_in_use
  /\ pc' = "recv"
  /\ UNCHANGED << cfg, call, ret, fstree, partition, res, loopvars, bufs, poolvars, writervars, ch,
                  gpuvars, cpuvars, filevars, p_aux, fault >>

\* hash: gpu_results_in_use.lock()
Lock ==
  /\ Running /\ pc = "lock"
  /\ gpu_results_in_use = "free"
  /\ gpu_results_in_use' = "main"
  /\ pc' = "recv"
  /\ UNCHANGED << cfg, call, ret, fstree, partition, res, loopvars, bufs, poolvars, writervars, ch,
                  gpuvars, cpuvars, filevars, p_aux, fault >>

\* hash without the ch.recv() before the spawn of the top-hash task
RecvSkipped ==
  /\ Running /\ pc = "recv"
  /\ ch' = ch
  /\ task' = [task EXCEPT !.pc = "copy", !.partition = partition]
  /\ partition' = partition + 1
  /\ pc' = IF partition + 1 < GetNumTreeRCFiles THEN "hash_gpu" ELSE "final_recv"
  /\ UNCHANGED << cfg, call, ret, fstree, res, loopvars, bufs, poolvars, writervars,
                  gpu_results_in_use, gpuvars, cpu_input_c, cpu_input_r,
                  tree_c_partition_roots, tree_r_partition_roots, filevars,
                  p_aux, fault >>

\* hash: ch.recv(), pool.spawn of the top-hash task, partition++
Recv ==
  /\ Running /\ pc = "recv"
  /\ ch # << >>
  /\ ch' = Tail(ch)
  /\ task' = [task EXCEPT !.pc = "copy", !.partition = partition]
  /\ partition' = partition + 1
  /\ pc' = IF partition + 1 < GetNumTreeRCFiles THEN "hash_gpu" ELSE "final_recv"
  /\ UNCHANGED << cfg, call, ret, fstree, res, loopvars, bufs, poolvars, writervars,
                  gpu_results_in_use, gpuvars, cpu_input_c, cpu_input_r,
                  tree_c_partition_roots, tree_r_partition_roots, filevars,
                  p_aux, fault >>

\* the top-hash task: the two memcpy and gpu_results_in_use.unlock()
TaskCopy ==
  /\ Running /\ task.pc = "copy"
  /\ cpu_input_c' = gpu_results_c
  /\ cpu_input_r' = gpu_results_r
  /\ gpu_results_in_use' = "free"
  /\ task' = [task EXCEPT !.pc = "hash"]
  /\ UNCHANGED << cfg, call, ret, fstree, pc, partition, res, loopvars, bufs, poolvars, writervars,
                  ch, gpuvars, tree_c_partition_roots, tree_r_partition_roots,
                  filevars, p_aux, fault >>

\* the top-hash task: hash_cpu for tree-c and tree-r, ch.send(partition).
\* The memcpy of the roots past the end of the vector either ends the
\* process or lands outside the vector.
TaskHash ==
  /\ Running /\ task.pc = "hash"
  /\ LET p == task.partition
         fs0 == [files |-> files, stray |-> stray, fail |-> FALSE]
         fs1 == IF tree_r_only THEN fs0
                ELSE CpuWrites(fs0, "c", p, cpu_input_c, final_gpu_offset_c)
         fs2 == CpuWrites(fs1, "r", p, cpu_input_r, final_gpu_offset_r)
     IN \E crash \in {c \in BOOLEAN : c => RootsOverflow(p)} :
          IF ~hash_cpu_precondition
          THEN /\ Abort("assert")
               /\ UNCHANGED << task, ch, tree_c_partition_roots,
                               tree_r_partition_roots, filevars >>
          ELSE IF crash
          THEN /\ Abort("overflow")
               /\ UNCHANGED << task, ch, tree_c_partition_roots,
                               tree_r_partition_roots, filevars >>
          ELSE /\ files' = fs2.files
               /\ stray' = fs2.stray
               /\ tree_c_partition_roots' =
                    IF tree_r_only THEN tree_c_partition_roots
                    ELSE CpuRoots(tree_c_partition_roots, p, cpu_input_c)
               /\ tree_r_partition_roots' =
                    CpuRoots(tree_r_partition_roots, p, cpu_input_r)
               /\ ch' = Append(ch, p)
               /\ task' = [task EXCEPT !.pc = "idle"]
               /\ UNCHANGED << pc, fault >>
  /\ UNCHANGED << cfg, call, ret, fstree, partition, res, loopvars, bufs, poolvars, writervars,
                  gpu_results_in_use, gpuvars, cpu_input_c, cpu_input_r, p_aux >>

\* hash: the last ch.recv()
FinalRecv ==
  /\ Running /\ pc = "final_recv"
  /\ ch # << >>
  /\ ch' = Tail(ch)
  /\ pc' = "write_roots"
  /\ UNCHANGED << cfg, call, ret, fstree, partition, res, loopvars, bufs, poolvars, writervars,
                  gpu_results_in_use, gpuvars, cpuvars, filevars, p_aux, fault >>

\* hash: write_roots(&tree_c_partition_roots[0], &tree_r_partition_roots[0])
WriteRoots ==
  /\ Running /\ pc = "write_roots"
  /\ p_aux' = [s \in Sectors |->
                 write_roots(tree_c_partition_roots, tree_r_partition_roots, s)]
  /\ pc' = "done"
  /\ UNCHANGED << cfg, call, ret, fstree, partition, res, loopvars, bufs, poolvars, writervars,
                  gpu_results_in_use, ch, gpuvars, cpuvars, filevars, fault >>

Next ==
  \/ HashStart
  \/ HashGpuBegin
  \/ VisitDone
  \/ VisitIdle
  \/ VisitDataRead
  \/ VisitDataWait
  \/ VisitHashColumn
  \/ VisitHashColumnLeaves
  \/ VisitHashLeaf
  \/ VisitHashWait
  \/ \E r \in DOMAIN res : ReaderDone(r)
  \/ \E r \in DOMAIN res : Callback(r)
  \/ \E w \in 1 .. num_writers : WriterTake(w)
  \/ \E w \in 1 .. num_writers : WriterWrite(w)
  \/ \E w \in 1 .. num_writers : WriterExit(w)
  \/ HashGpuFlush
  \/ HashGpuReturn
  \/ Lock
  \/ Recv
  \/ TaskCopy
  \/ TaskHash
  \/ FinalRecv
  \/ WriteRoots

Spec == Init /\ [][Next]_vars

\* ------------------------------------------------------------------------
\* tree_address_t on its own: every tree the constructor accepts, and the
\* calls of address and data_size on it
\* ------------------------------------------------------------------------
enginevars == << cfg, pc, partition, res, resource_num, all_done, bufs, batch,
                 pool_full, pool_empty, to_disk, unbundle, bundle, idx_unbundle,
                 idx_bundle, wr, terminate, disk_writer_done, gpu_results_in_use,
                 ch, gpu_results_c, gpu_results_r, cpu_input_c, cpu_input_r, task,
                 tree_c_partition_roots, tree_r_partition_roots, files, stray,
                 p_aux, fault >>

\* the constructor arguments that pass assert (leaf_count % arity == 0)
TreeCalls ==
  {c \in [op : {"tree_address_t"}, leaf_count : 1 .. MaxLeaves, arity : 2 .. MaxArity,
          node_size : {1, NODE_SIZE}, layer_skips : 0 .. MaxSkips] :
     c.leaf_count % c.arity = 0}

\* the object constructed from the arguments
Tree == tree_address_t(call.leaf_count, call.arity, call.node_size, call.layer_skips)

AddrInit ==
  /\ EngineInit
  /\ cfg = CHOOSE c \in Configs : TRUE
  /\ call \in TreeCalls
  /\ ret = NoCall
  /\ fstree = NoFs

\* tree_address_t::address(node_id_t(layer, node))
TreeAddress(layer, node) ==
  /\ AddressInRange(Tree, layer)
  /\ ret' = [op |-> "address", layer |-> layer, node |-> node,
             value |-> address(Tree, layer, node)]
  /\ UNCHANGED << enginevars, call, fstree >>

\* tree_address_t::data_size()
TreeDataSize ==
  /\ ret' = [op |-> "data_size", value |-> data_size(Tree)]
  /\ UNCHANGED << enginevars, call, fstree >>

AddrNext ==
  \/ \E layer \in 0 .. MaxLeaves, node \in 0 .. (MaxLeaves - 1) : TreeAddress(layer, node)
  \/ TreeDataSize

AddrSpec == AddrInit /\ [][AddrNext]_vars

\* ------------------------------------------------------------------------
\* Construction: the engine from before pc2_t::pc2_t, also with arguments
\* that violate a precondition
\* ------------------------------------------------------------------------
GoodConfig == Config(FALSE, 2, 1, {0}, 16, 8, 1, 2, 2, 2, 1)

CtorConfigs ==
  { GoodConfig,
    [GoodConfig EXCEPT !.tree_r_only = TRUE],
    [GoodConfig EXCEPT !.stream_count = 2, !.ngpus = 2, !.batch_size = 4, !.NB = 1],
    [GoodConfig EXCEPT !.stream_count = 3],
    [GoodConfig EXCEPT !.rc_arity = 8],
    [GoodConfig EXCEPT !.ngpus = 2],
    [GoodConfig EXCEPT !.ngpus = 3, !.stream_count = 4, !.batch_size = 4],
    [GoodConfig EXCEPT !.batch_size = 4],
    [GoodConfig EXCEPT !.batch_size = 2],
    [GoodConfig EXCEPT !.stream_count = 4, !.batch_size = 2, !.nodes_to_read = 8,
                       !.tree_r_only = TRUE, !.D = 2, !.NB = 1, !.NE = 1] }

\* the members the initialiser list sets; nothing else exists yet
CtorInit ==
  /\ cfg \in CtorConfigs
  /\ pc = "new"
  /\ partition = 0
  /\ res = << >>
  /\ resource_num = 0
  /\ all_done = FALSE
  /\ bufs = << >>
  /\ batch = << >>
  /\ pool_full = << >>
  /\ pool_empty = << >>
  /\ to_disk = << >>
  /\ unbundle = 0 /\ bundle = 0 /\ idx_unbundle = 0 /\ idx_bundle = 0
  /\ wr = [w \in 1 .. num_writers |-> [pc |-> "off", held |-> 0]]
  /\ terminate = FALSE
  /\ disk_writer_done = 0
  /\ gpu_results_in_use = "free"
  /\ ch = << >>
  /\ gpu_results_c = [q \in 1 .. (IF tree_r_only THEN 0
                                  ELSE ((batch_size * PARALLEL_SECTORS) \div TREE_ARITY)
                                         * stream_count) |-> Uninit]
  /\ gpu_results_r = [q \in 1 .. (((batch_size * PARALLEL_SECTORS) \div TREE_ARITY)
                                    * stream_count) |-> Uninit]
  /\ cpu_input_c = gpu_results_c
  /\ cpu_input_r = gpu_results_r
  /\ task = [pc |-> "idle", partition |-> 0]
  /\ tree_c_partition_roots = [q \in 1 .. (PARALLEL_SECTORS * TREE_ARITY) |-> Uninit]
  /\ tree_r_partition_roots = [q \in 1 .. (PARALLEL_SECTORS * TREE_ARITY) |-> Uninit]
  /\ files = << >>
  /\ stray = {}
  /\ p_aux = [s \in Sectors |-> << >>]
  /\ fault = "none"
  /\ call = NoCall
  /\ ret = NoCall
  /\ fstree = NoFs

\* pc2_t::pc2_t: the asserts of the members tree_c_address and
\* tree_r_address, the two asserts of the body, open_files, the assert of
\* final_tree, the resources and the buffer pools
Construct ==
  /\ Running /\ pc = "new"
  /\ IF ~(member_preconditions /\ ctor_preconditions)
     THEN /\ Abort("assert")
          /\ UNCHANGED << res, bufs, batch, pool_full, pool_empty, files >>
     ELSE IF ~final_tree_precondition
     THEN /\ Abort("assert")
          /\ files' = [f \in OpenedFiles |-> [slot \in 0 .. (FileSlots(f) - 1) |-> << >>]]
          /\ UNCHANGED << res, bufs, batch, pool_full, pool_empty >>
     ELSE /\ files' = [f \in OpenedFiles |-> [slot \in 0 .. (FileSlots(f) - 1) |-> << >>]]
          /\ res' = [r \in Resources |-> NewResource(r)]
          /\ bufs' = [b \in BufIds |-> NewBuf]
          /\ batch' = [i \in BatchIds |->
                         [j \in 1 .. disk_io_batch_size |->
                            IF i <= num_host_batches
                            THEN (i - 1) * disk_io_batch_size + j ELSE 0]]
          /\ pool_full' = [i \in 1 .. num_host_batches |-> i]
          /\ pool_empty' = [i \in 1 .. num_host_empty_batches |-> num_host_batches + i]
          /\ pc' = "hash"
          /\ UNCHANGED fault
  /\ UNCHANGED << cfg, call, ret, fstree, partition, loopvars, to_disk, unbundle, bundle,
                  idx_unbundle, idx_bundle, writervars, gpu_results_in_use, ch,
                  gpuvars, cpuvars, stray, p_aux >>

CtorNext ==
  \/ Construct
  \/ Next

CtorSpec == CtorInit /\ [][CtorNext]_vars

\* ------------------------------------------------------------------------
\* File layout: get_filenames, the files open_files and write_roots create,
\* and do_pc2_cleanup. A path is the sequence of the pieces snprintf joins.
\* ------------------------------------------------------------------------
\* the elements of a vector
Elems(v) == {v[i] : i \in DOMAIN v}

\* the concatenation of a vector of vectors
RECURSIVE Flatten(_)
Flatten(vv) == IF vv = << >> THEN << >> ELSE Head(vv) \o Flatten(Tail(vv))

\* snprintf "%03ld"
Dec3(i) ==
  IF i < 10 THEN << "00", ToString(i) >>
  ELSE IF i < 100 THEN << "0", ToString(i) >>
  ELSE << ToString(i) >>

\* "%s" for one sector, "%s/%03ld" otherwise
SectorDir(base, sectors, i) ==
  IF sectors = 1 THEN base ELSE base \o << "/" >> \o Dec3(i)

\* the tree file templates: "-%ld" only with more than one partition
TreeFileName(dir, stem, num_files, j) ==
  IF num_files > 1 THEN dir \o << stem, "-", ToString(j), ".dat" >>
  ELSE dir \o << stem, ".dat" >>

\* pc2_t::get_filenames for C::PARALLEL_SECTORS = sectors and
\* GetNumTreeRCFiles = num_files, on the directory tree f
get_filenames(f, sectors, num_files, output_dir) ==
  LET replicas == output_dir \o << "/replicas" >>
      pc2_replica_output_dir ==
        IF replicas \in f.dirs \cup f.files THEN replicas ELSE output_dir
      S == 0 .. (sectors - 1)
  IN [directories |->
        << output_dir >>
          \o Flatten([q \in 1 .. sectors |->
                        << SectorDir(output_dir, sectors, q - 1),
                           SectorDir(pc2_replica_output_dir, sectors, q - 1) >>]),
      p_aux_filenames |->
        [q \in 1 .. sectors |->
           SectorDir(output_dir, sectors, q - 1) \o << "/p_aux" >>],
      tree_c_filenames |->
        [q \in 1 .. sectors |->
           [j \in 1 .. num_files |->
              TreeFileName(SectorDir(output_dir, sectors, q - 1),
                           "/sc-02-data-tree-c", num_files, j - 1)]],
      tree_r_filenames |->
        [q \in 1 .. sectors |->
           [j \in 1 .. num_files |->
              TreeFileName(SectorDir(output_dir, sectors, q - 1),
                           "/sc-02-data-tree-r-last", num_files, j - 1)]],
      sealed_filenames |->
        [q \in 1 .. sectors |->
           SectorDir(pc2_replica_output_dir, sectors, q - 1) \o << "/sealed-file" >>]]

\* the directories the loop of open_files creates where they do not exist
MakeDirs(f, names) == [f EXCEPT !.dirs = @ \cup Elems(names.directories)]

\* pc2_t::open_files: the tree-R files, and unless tree_r_only the tree-C and
\* sealed files, are created
open_files(f, sectors, num_files, tro, output_dir) ==
  LET names == get_filenames(f, sectors, num_files, output_dir)
      created == Elems(Flatten(names.tree_r_filenames))
                   \cup (IF tro THEN {}
                         ELSE Elems(Flatten(names.tree_c_filenames))
                                \cup Elems(names.sealed_filenames))
  IN [MakeDirs(f, names) EXCEPT !.files = @ \cup created]

\* d is a directory with nothing in it
IsPrefix(d, q) == Len(d) < Len(q) /\ SubSeq(q, 1, Len(d)) = d
IsEmptyDir(f, d) == d \in f.dirs /\ \A q \in f.dirs \cup f.files : ~IsPrefix(d, q)

\* std::filesystem::remove of each path of the sequence in turn: a file is
\* removed, and so is a directory when it is empty
RECURSIVE RemoveAll(_, _)
RemoveAll(f, paths) ==
  IF paths = << >> THEN f
  ELSE LET q == Head(paths)
       IN RemoveAll([dirs |-> IF IsEmptyDir(f, q) THEN f.dirs \ {q} ELSE f.dirs,
                     files |-> f.files \ {q}],
                    Tail(paths))

\* the cleanup removing the directories as well
cleanup_paths_and_dirs(names) ==
  names.p_aux_filenames \o names.sealed_filenames
    \o Flatten(names.tree_c_filenames) \o Flatten(names.tree_r_filenames)
    \o names.directories

\* the paths the four loops of do_pc2_cleanup remove, in order
cleanup_paths(names) ==
  names.p_aux_filenames \o names.sealed_filenames
    \o Flatten(names.tree_c_filenames) \o Flatten(names.tree_r_filenames)

\* do_pc2_cleanup(params, output_dir)
do_pc2_cleanup(f, sectors, num_files, output_dir) ==
  RemoveAll(f, cleanup_paths(get_filenames(f, sectors, num_files, output_dir)))

OutputDir == << "out" >>

\* files of earlier runs and of others that may lie in the output directory
LeftOvers ==
  { OutputDir \o << "/sealed-file" >>,
    OutputDir \o << "/sc-02-data-tree-c.dat" >>,
    OutputDir \o << "/replicas", "/", "00", "0", "/sealed-file" >>,
    OutputDir \o << "/", "00", "1", "/sc-02-data-layer-1.dat" >> }

\* one run: the template parameter, the sector parameters and the mode
LayoutCalls ==
  [op : {"pc2"}, sectors : {1, PARALLEL_SECTORS}, num_files : 1 .. MaxPartitions,
   tree_r_only : BOOLEAN]

LayoutInit ==
  /\ EngineInit
  /\ cfg = CHOOSE c \in Configs : TRUE
  /\ call \in LayoutCalls
  /\ ret = NoCall
  /\ fstree \in { [dirs |-> {OutputDir} \cup R, files |-> F] :
                    R \in {{}, {OutputDir \o << "/replicas" >>}},
                    F \in SUBSET LeftOvers }

\* the constructor's open_files(); p_aux_filenames is kept in the object
OpenFilesCall ==
  /\ ret.op = "none"
  /\ fstree' = open_files(fstree, call.sectors, call.num_files, call.tree_r_only,
                          OutputDir)
  /\ ret' = [op |-> "open_files",
             p_aux_filenames |->
               get_filenames(fstree, call.sectors, call.num_files,
                             OutputDir).p_aux_filenames]
  /\ UNCHANGED << enginevars, call >>

\* write_roots: open(p_aux_filenames[sector], O_RDWR | O_CREAT)
WriteRootsCall ==
  /\ ret.op = "open_files"
  /\ fstree' = [fstree EXCEPT !.files = @ \cup Elems(ret.p_aux_filenames)]
  /\ ret' = [op |-> "write_roots"]
  /\ UNCHANGED << enginevars, call >>

\* do_pc2_cleanup, after a run, after a run that stopped early, or without
CleanupCall ==
  /\ ret.op # "do_pc2_cleanup"
  /\ fstree' = do_pc2_cleanup(fstree, call.sectors, call.num_files, OutputDir)
  /\ ret' = [op |-> "do_pc2_cleanup"]
  /\ UNCHANGED << enginevars, call >>

LayoutNext ==
  \/ OpenFilesCall
  \/ WriteRootsCall
  \/ CleanupCall

LayoutSpec == LayoutInit /\ [][LayoutNext]_vars

\* the steps of the main thread (hash, hash_gpu and the orchestrator loop)
MainStep ==
  \/ HashStart \/ HashGpuBegin
  \/ VisitDone \/ VisitIdle \/ VisitDataRead \/ VisitDataWait \/ VisitHashColumn
  \/ VisitHashColumnLeaves \/ VisitHashLeaf \/ VisitHashWait
  \/ HashGpuFlush \/ HashGpuReturn \/ Lock \/ Recv \/ FinalRecv \/ WriteRoots

\* every thread keeps running: the main thread, the reader, the streams
\* with their callback thread, each disk writer, the top-hash worker
Fairness ==
  /\ WF_vars(MainStep)
  /\ \A r \in {0, 1} : WF_vars(r \in Streams /\ ReaderDone(r))
  /\ \A r \in {0, 1} : WF_vars(r \in Streams /\ Callback(r))
  /\ \A w \in {1, 2} :
       WF_vars(w \in DOMAIN wr /\ (WriterTake(w) \/ WriterWrite(w) \/ WriterExit(w)))
  /\ WF_vars(TaskCopy \/ TaskHash)

FairSpec == Spec /\ Fairness

\* ------------------------------------------------------------------------
\* Claims
\* ------------------------------------------------------------------------
\* the run is over: hash() has returned
Returned == pc = "done"

\* C1: any two distinct writes issued during hash() to the same file (the
\* BufToDisk writes of the GPU stage and the writes of the CPU top-hash)
\* cover disjoint node ranges: no node slot of a file is written twice.
C1_DisjointWrites ==
  \A f \in DOMAIN files : \A slot \in DOMAIN files[f] : Len(files[f][slot]) <= 1

\* C2: when hash() returns, every node slot of every tree-C file, tree-R
\* file and sealed file has been the target of exactly one write, for every
\* D in [0, log_A(leaves)) (only the tree-R files when tree_r_only).
C2_EverySlotOnce ==
  Returned =>
    \A f \in DOMAIN files : \A slot \in DOMAIN files[f] : Len(files[f][slot]) = 1

\* number of places that hold batch b: positions in the three queues, the
\* two slots of the batcher, the writers
Holders(b) ==
  Cardinality({i \in DOMAIN pool_full : pool_full[i] = b})
    + Cardinality({i \in DOMAIN pool_empty : pool_empty[i] = b})
    + Cardinality({i \in DOMAIN to_disk : to_disk[i] = b})
    + (IF unbundle = b THEN 1 ELSE 0)
    + (IF bundle = b THEN 1 ELSE 0)
    + Cardinality({w \in DOMAIN wr : wr[w].held = b})

\* C3: in every reachable state each BufToDiskBatch is in exactly one of
\* pool_full, pool_empty, to_disk, or held by exactly one holder (the
\* batcher's unbundle slot, its bundle slot, or one writer).
C3_BatchConservation ==
  \A b \in BatchIds : Holders(b) = 1

\* the outcome of the orchestrator's visit of resource r in this state
VisitOutcome(r) ==
  CASE res[r].state = "IDLE" -> Idle(r)
    [] res[r].state = "DATA_READ" -> DataRead(r)
    [] res[r].state = "DATA_WAIT" -> DataWait(r)
    [] res[r].state = "HASH_COLUMN" -> HashColumn(r)
    [] res[r].state = "HASH_COLUMN_LEAVES" -> HashColumnLeaves(r)
    [] res[r].state = "HASH_LEAF" -> HashLeaf(r)
    [] res[r].state = "HASH_WAIT" -> HashWait(r)
    [] OTHER -> Blocked(r)

\* the orchestrator is spinning for good: some resource is not DONE, every
\* visit breaks out of the switch without a change, no read and no GPU work
\* is pending, and the writers have nothing to take and hold nothing
Deadlocked ==
  /\ Running /\ pc = "loop"
  /\ \E r \in Streams : res[r].state # "DONE"
  /\ \A r \in Streams :
       /\ VisitOutcome(r) = Blocked(r)
       /\ ~res[r].loading
       /\ res[r].op.kind = "none"
  /\ to_disk = << >>
  /\ \A w \in DOMAIN wr : wr[w].pc = "loop"
  /\ task.pc = "idle"

\* C4: for every pool configuration with at least one full and one empty
\* batch and a single slow writer the engine does not deadlock under
\* backpressure: the orchestrator never spins with a resource that is not
\* DONE while no other thread has anything left to do.
C4_NoDeadlock == ~Deadlocked

\* layer of the nodes a stream's last work item produces
TopGpuLayer == 1 + LogA(nodes_per_stream \div batch_size)

\* node `node` of layer `layer` of partition p of sector s, as the tree
\* that the sector's data defines
TreeNode(kind, s, layer, p, node) ==
  Val(kind, s, layer, p * (nodes_to_read \div Pow(TREE_ARITY, layer)) + node,
      kind = "r" /\ DataFileOpen(s))

\* the final GPU outputs of all streams for partition p, laid out as
\* gpu_results: per stream, per sector, batch_size / TREE_ARITY nodes
FinalGpuOutputs(kind, p) ==
  LET count == batch_size \div TREE_ARITY
      stride == count * PARALLEL_SECTORS
      len == IF kind = "c" /\ tree_r_only THEN 0 ELSE stride * stream_count
  IN [q \in 1 .. len |->
        LET r == (q - 1) \div stride
            s == ((q - 1) % stride) \div count
            j == (q - 1) % count
        IN TreeNode(kind, s, TopGpuLayer, p, r * count + j)]

\* C5: the top-hash task of partition p copies gpu_results_c / gpu_results_r
\* when they hold exactly the final GPU outputs of all streams for partition
\* p: from the return of hash_gpu(p) to the end of the copy no final
\* HASH_LEAF of partition p+1 has written into them.
C5_CopySeesPartition ==
  /\ pc \in {"lock", "recv"} =>
       /\ gpu_results_c = FinalGpuOutputs("c", partition)
       /\ gpu_results_r = FinalGpuOutputs("r", partition)
  /\ task.pc = "copy" =>
       /\ gpu_results_c = FinalGpuOutputs("c", task.partition)
       /\ gpu_results_r = FinalGpuOutputs("r", task.partition)
  /\ task.pc = "hash" =>
       /\ cpu_input_c = FinalGpuOutputs("c", task.partition)
       /\ cpu_input_r = FinalGpuOutputs("r", task.partition)

\* the copy of partition 0 is still to be made while a stream of partition
\* 1 stands at its final HASH_LEAF with the buffers it needs available
C5_Witness ==
  /\ task.pc = "copy" /\ task.partition = 0
  /\ pc = "loop" /\ partition = 1
  /\ \E r \in Streams :
       /\ res[r].state = "HASH_LEAF" /\ res[r].last
       /\ gpu_results_in_use = "main"
       /\ BatcherSize(PS) >= 2

\* layer of the root of a partition's tree
RootLayer == LogA(nodes_to_read)

\* the roots of the P partitions of sector s, in partition order
PartitionRoots(kind, s) ==
  [q \in 1 .. GetNumTreeRCFiles |-> TreeNode(kind, s, RootLayer, q - 1, 0)]

\* C6: when P > 1 and hash() has returned, the first field element of
\* p_aux[s] is the tree-arity Poseidon hash of exactly the P tree-C partition
\* roots of sector s in partition order (zero if tree_r_only) and the second
\* is the same hash of the P tree-R partition roots.
C6_RootsOfAllPartitions ==
  (Returned /\ GetNumTreeRCFiles > 1) =>
    \A s \in Sectors :
      p_aux[s] = << IF tree_r_only THEN Zero ELSE Poseidon(PartitionRoots("c", s)),
                    Poseidon(PartitionRoots("r", s)) >>

\* the buf_to_disk_t objects that carry a write
LiveBufs == {b \in DOMAIN bufs : bufs[b].size > 0}

\* C7: when tree_r_only is true, in every state no tree-C file and no sealed
\* file exists or has been written, no buf_to_disk_t targets one, hash_cpu
\* has not stored a tree-C root, and the first field element written to every
\* p_aux is zero.
C7_TreeROnly ==
  tree_r_only =>
    /\ \A f \in DOMAIN files : f[1] = "r"
    /\ \A f \in stray : f[1][1] = "r"
    /\ \A b \in LiveBufs : bufs[b].dst[1] = "r"
    /\ \A q \in DOMAIN tree_c_partition_roots : tree_c_partition_roots[q] = Uninit
    /\ \A s \in Sectors : p_aux[s] # << >> => p_aux[s][1] = Zero

\* a tree_r_only run has returned: tree-R files written, p_aux written
C7_Witness ==
  /\ tree_r_only /\ Returned
  /\ \A s \in Sectors : Len(p_aux[s]) = 2 /\ p_aux[s][1] = Zero /\ p_aux[s][2] # Zero
  /\ \A f \in DOMAIN files : \E slot \in DOMAIN files[f] : files[f][slot] # << >>
  /\ LiveBufs # {}

\* C8: when P = 1 and tree_r_only is false, after hash() the p_aux of sector
\* s holds exactly two field elements: the tree-C root of partition 0 of
\* sector s followed by its tree-R root, with no further hashing.
C8_SinglePartitionRoots ==
  (Returned /\ GetNumTreeRCFiles = 1 /\ ~tree_r_only) =>
    \A s \in Sectors :
      p_aux[s] = << TreeNode("c", s, RootLayer, 0, 0),
                    TreeNode("r", s, RootLayer, 0, 0) >>

\* a single-partition run with a data file for sector 0 only has returned
C8_Witness ==
  /\ Returned /\ GetNumTreeRCFiles = 1 /\ ~tree_r_only
  /\ cfg.data = {0}
  /\ p_aux[0] = << Val("c", 0, RootLayer, 0, FALSE), Val("r", 0, RootLayer, 0, TRUE) >>
  /\ p_aux[1] = << Val("c", 1, RootLayer, 0, FALSE), Val("r", 1, RootLayer, 0, FALSE) >>

\* the streams that hold a leaf work item whose columns have been requested
LeafStreams ==
  {r \in Streams : res[r].state \in {"DATA_WAIT", "HASH_COLUMN", "HASH_COLUMN_LEAVES"}}

\* the column-hash write of stream r is issued and not yet handed over
ColumnWriteIssued(r) ==
  res[r].state = "HASH_COLUMN_LEAVES" /\ res[r].op.kind = "col"

\* C9: for every partition p, stream r and leaf work item w the B columns
\* read start at sector node w*B + nodes_per_stream*r + p*nodes_to_read; their
\* column hashes go to layer 0 of partition p's tree-C file at node indexes
\* (start_node - p*nodes_to_read) .. +B-1, so that after hash() the tree-C
\* leaf at node index c of partition p is the column hash of sector node
\* p*nodes_to_read + c.
C9_ColumnLeaves ==
  /\ \A r \in LeafStreams :
       res[r].start_node = res[r].work_c.node * batch_size
                             + nodes_per_stream * r + partition * nodes_to_read
  /\ \A r \in Streams : ColumnWriteIssued(r) =>
       LET b == bufs[res[r].op.buf_c]
       IN /\ b.dst = <<"c", partition>>
          /\ b.size = batch_size
          /\ b.offset = res[r].start_node - partition * nodes_to_read
  /\ (Returned /\ ~tree_r_only) =>
       \A f \in TreeFileIds("c") : \A c \in 0 .. (nodes_to_read - 1) :
         /\ files[f][c] # << >>
         /\ files[f][c][Len(files[f][c])] = ColumnHash(f[2], f[3] * nodes_to_read + c)

\* the streams whose tree-R leaf hash of the current leaf work item has run
LeafHashed ==
  {r \in Streams : res[r].state = "HASH_WAIT" /\ res[r].work_r.is_leaf
                     /\ res[r].async_done}

\* layer_{N-1}[s,n] + data[s,n]
Encoded(s, n) == Val("r", s, 0, n, TRUE)

\* C10: for every sector s and node n the value fed to the tree-R leaf hash
\* is layer_{N-1}[s,n] + data[s,n] if a data file was supplied for sector s
\* and layer_{N-1}[s,n] unchanged if not, for tree_r_only true and false and
\* with sectors with and without data files mixed in one run.
C10_LeafInput ==
  \A r \in LeafHashed :
    /\ Len(res[r].dev_last) = PARALLEL_SECTORS * batch_size
    /\ \A q \in DOMAIN res[r].dev_last :
         LET s == (q - 1) % PARALLEL_SECTORS
             n == res[r].start_node + ((q - 1) \div PARALLEL_SECTORS)
         IN res[r].dev_last[q] = IF s \in cfg.data THEN Encoded(s, n)
                                 ELSE Layer11(s, n)

\* the stored layer of tree address t that byte offset off falls in (0-based)
StoredLayerOf(t, off) ==
  CHOOSE l \in 0 .. (Len(t.layer_offsets) - 1) :
    /\ t.layer_offsets[l + 1] <= off
    /\ l + 2 <= Len(t.layer_offsets) => off < t.layer_offsets[l + 2]

\* the logical tree node that belongs at node slot `slot` of file f; it does
\* not depend on stream_count
LogicalNode(f, slot) ==
  IF f[1] = "sealed"
  THEN (IF DataFileOpen(f[2]) THEN Encoded(f[2], slot) ELSE Layer11(f[2], slot))
  ELSE LET t == IF f[1] = "c" THEN tree_c_address ELSE tree_r_address
           skip == IF f[1] = "c" THEN 0 ELSE GetNumTreeRDiscardRows + 1
           l == StoredLayerOf(t, slot * NODE_SIZE)
           node == slot - (t.layer_offsets[l + 1] \div NODE_SIZE)
       IN TreeNode(f[1], f[2], l + skip, f[3], node)

\* the node slots a run writes whatever its stream_count: the sealed nodes,
\* the tree-C nodes, and the tree-R nodes from layer 2 on
WrittenSlots(f) ==
  {slot \in DOMAIN files[f] :
     f[1] = "r" =>
       StoredLayerOf(tree_r_address, slot * NODE_SIZE) + GetNumTreeRDiscardRows + 1 >= 2}

\* C11: a run with stream_count = 1 and a run with stream_count > 1 over the
\* same inputs and parameters write the same logical tree node at every
\* (file, node offset): every write of a run lands on a node offset of its
\* file and carries the node that belongs there, and the offsets written when
\* hash() returns do not depend on stream_count.
C11_StreamCountIndependent ==
  /\ stray = {}
  /\ \A f \in DOMAIN files : \A slot \in DOMAIN files[f] :
       \A k \in DOMAIN files[f][slot] : files[f][slot][k] = LogicalNode(f, slot)
  /\ Returned =>
       \A f \in DOMAIN files :
         {slot \in DOMAIN files[f] : files[f][slot] # << >>} = WrittenSlots(f)

\* hash_gpu's call of flush() finds a partially filled bundle
PartialFlush ==
  /\ pc = "sync" /\ pc' # "sync"
  /\ 0 < idx_bundle /\ idx_bundle = idx_unbundle /\ idx_bundle < disk_io_batch_size

\* the slots of a batch that flush has to pad / that are not yet dequeued
RestSlots == (idx_bundle + 1) .. disk_io_batch_size

\* the not-yet-dequeued buffers of the current unbundle batch
RestBufs == {batch[unbundle][j] : j \in RestSlots}

\* C12: flush() with a partially filled bundle (0 < idx_bundle = idx_unbundle
\* < K) fills the remaining K - idx slots of the bundle with exactly the K -
\* idx not-yet-dequeued buffers of the unbundle batch, each once and with size
\* 0, touches no batch index >= K (so it cannot fail) and no other buffer, and
\* pushes the bundle to to_disk and the unbundle batch to pool_empty.
C12_FlushPadsBundle ==
  [][PartialFlush =>
       /\ pc' = "wait"
       /\ {batch'[bundle][j] : j \in RestSlots} = RestBufs
       /\ Cardinality(RestBufs) = disk_io_batch_size - idx_bundle
       /\ \A j \in 1 .. idx_bundle : batch'[bundle][j] = batch[bundle][j]
       /\ bufs' = [b \in DOMAIN bufs |->
                     IF b \in RestBufs THEN [bufs[b] EXCEPT !.size = 0] ELSE bufs[b]]
       /\ to_disk' = Append(to_disk, bundle)
       /\ pool_empty' = Append(pool_empty, unbundle)]_vars

\* C13: flush() is idempotent on re-entry: the flush of the batcher's
\* destructor, which follows hash_gpu's explicit flush with no dequeue or
\* enqueue in between, leaves pool_full, pool_empty, to_disk, the batches and
\* every buffer unchanged (and cannot fail).
C13_FlushIdempotent ==
  pc = "wait" =>
    LET f == BatcherFlush(PS, bufs, [i \in {} |-> 0])
    IN /\ ~f.ps.fail
       /\ f.ps = PS
       /\ f.bufs = bufs

\* the destructor's flush has run after a flush that padded a bundle: a
\* buffer that carried a write has size 0 again
C13_Witness ==
  /\ pc = "lock" /\ bundle = 0 /\ unbundle = 0
  /\ \E b \in DOMAIN bufs : bufs[b].size = 0 /\ bufs[b].dst[1] # "none"

\* nodes_at(j) = leaf_count / arity^j, the node count of logical layer j
nodes_at(j) == call.leaf_count \div Pow(call.arity, j)

\* the node ids inside the tree: <<stored layer, node index>>
InsideTree ==
  {id \in (0 .. (Len(Tree.layer_offsets) - 1)) \X (0 .. (MaxLeaves - 1)) :
     id[2] < nodes_at(call.layer_skips + id[1])}

LexLess(a, b) == a[1] < b[1] \/ (a[1] = b[1] /\ a[2] < b[2])

\* C14: for every tree_address_t and every node id inside the tree,
\* address(id) = layer_offsets[layer] + node_index * node_size, address(id) <
\* data_size(), and address is strictly increasing in the lexicographic order
\* on (layer, node_index).
C14_AddressInsideAndMonotone ==
  (ret.op = "address" /\ << ret.layer, ret.node >> \in InsideTree) =>
    /\ ret.value = Tree.layer_offsets[ret.layer + 1] + ret.node * call.node_size
    /\ ret.value < data_size(Tree)
    /\ \A id \in InsideTree :
         LexLess(id, << ret.layer, ret.node >>) =>
           address(Tree, id[1], id[2]) < ret.value

\* address was called on the last node of the second stored layer of a tree
\* with 32-byte nodes
C14_Witness ==
  /\ ret.op = "address" /\ call.node_size = NODE_SIZE
  /\ ret.layer = 1 /\ ret.node > 0
  /\ << ret.layer, ret.node >> \in InsideTree
  /\ << ret.layer, ret.node + 1 >> \notin InsideTree

\* number of nodes of a tree whose lowest layer has m nodes, up to its root
RECURSIVE TotalNodes(_, _)
TotalNodes(m, a) == IF m <= 1 THEN m ELSE m + TotalNodes(m \div a, a)

\* n is a power of a
RECURSIVE IsPowerOf(_, _)
IsPowerOf(n, a) == n = 1 \/ (n > 1 /\ n % a = 0 /\ IsPowerOf(n \div a, a))

\* the layout the claim describes, for the tree of the call
TreeLayout ==
  LET offs == Tree.layer_offsets
      k == call.layer_skips
      last == Len(offs)
  IN /\ offs[1] = 0
     /\ \A i \in 1 .. (last - 1) :
          offs[i + 1] = offs[i] + nodes_at(k + i - 1) * call.node_size
     /\ nodes_at(k + last - 1) = 1
     /\ ret.op = "data_size" =>
          /\ ret.value = offs[last] + call.node_size
          /\ ret.value = call.node_size * TotalNodes(nodes_at(k), call.arity)

\* C15: for every tree_address_t built with leaf_count divisible by arity and
\* layer_skips = k: layer_offsets[0] = 0, layer_offsets[i+1] =
\* layer_offsets[i] + nodes_at(k+i) * node_size with nodes_at(j) = leaf_count
\* / arity^j, the last stored layer contains one node, and data_size() =
\* layer_offsets[last] + node_size is node_size times the number of nodes in
\* the logical layers k up to the root.
C15_Layout == call.op = "tree_address_t" => TreeLayout

\* C15 as amended: the same for every tree_address_t whose leaf_count is a
\* power of arity and whose layer_skips does not exceed the height of the tree
\* (log_arity(leaf_count)).
C15_LayoutOfFullTree ==
  (call.op = "tree_address_t" /\ IsPowerOf(call.leaf_count, call.arity)
     /\ nodes_at(call.layer_skips) >= 1) => TreeLayout

\* data_size was called on a full tree with skipped layers and at least two
\* stored layers
C15_Witness ==
  /\ ret.op = "data_size" /\ IsPowerOf(call.leaf_count, call.arity)
  /\ call.layer_skips >= 1 /\ Len(Tree.layer_offsets) >= 2
  /\ call.node_size = NODE_SIZE

\* the constructor aborted on one of its asserts
CtorAborted == pc \in {"new", "aborted"} /\ (pc = "aborted" => fault = "assert")

\* nothing of the partition has started: no node written, no buffer taken
\* from a pool, no writer spawned, every resource as constructed
NothingStarted ==
  /\ \A f \in DOMAIN files : \A slot \in DOMAIN files[f] : files[f][slot] = << >>
  /\ stray = {}
  /\ pool_full = [i \in 1 .. num_host_batches |-> i]
  /\ pool_empty = [i \in 1 .. num_host_empty_batches |-> num_host_batches + i]
  /\ to_disk = << >> /\ unbundle = 0 /\ bundle = 0
  /\ \A w \in DOMAIN wr : wr[w].pc = "off"
  /\ \A r \in DOMAIN res : res[r] = NewResource(r)

\* C16: when nodes_to_read % stream_count # 0 (or the arity differs from
\* TREE_ARITY) construction aborts before any output file is created or GPU
\* work issued; when stream_count % ngpus # 0, hash_gpu aborts before any
\* work item is processed or buffer dequeued.
C16_PreconditionsFatal ==
  /\ (cfg.nodes_to_read % cfg.stream_count # 0 \/ cfg.rc_arity # TREE_ARITY) =>
       /\ CtorAborted
       /\ files = << >> /\ res = << >> /\ ch = << >>
  /\ (cfg.nodes_to_read % cfg.stream_count = 0 /\ cfg.rc_arity = TREE_ARITY
        /\ cfg.stream_count % cfg.ngpus # 0) =>
       /\ pc \in {"new", "hash", "hash_gpu", "aborted"}
       /\ pc = "aborted" => fault = "assert"
       /\ pc # "new" => NothingStarted

\* hash_gpu aborted on its assert, in an engine that was constructed with
\* resources
C16_Witness ==
  /\ pc = "aborted" /\ cfg.stream_count % cfg.ngpus # 0
  /\ files # << >> /\ res # << >>

\* the file paths get_filenames yields for the call, on the current tree
YieldedFiles ==
  LET names == get_filenames(fstree, call.sectors, call.num_files, OutputDir)
  IN Elems(names.p_aux_filenames) \cup Elems(names.sealed_filenames)
       \cup UNION {Elems(names.tree_c_filenames[q]) : q \in 1 .. call.sectors}
       \cup UNION {Elems(names.tree_r_filenames[q]) : q \in 1 .. call.sectors}

BuffersToDequeue ==
  (IF unbundle = 0 THEN 0 ELSE disk_io_batch_size - idx_unbundle)
    + Len(pool_full) * disk_io_batch_size

\* the empty slots available to enqueue: what is left of the bundle batch and
\* every batch of pool_empty
SlotsToEnqueue ==
  (IF bundle = 0 THEN 0 ELSE disk_io_batch_size - idx_bundle)
    + Len(pool_empty) * disk_io_batch_size

\* the number of buffers a visit of a resource in state R.state dequeues
BuffersDequeued(R) ==
  CASE R.state = "DATA_WAIT" -> IF tree_r_only THEN 0 ELSE 1
    [] R.state = "HASH_COLUMN" -> 1
    [] R.state = "HASH_COLUMN_LEAVES" -> IF tree_r_only THEN 0 ELSE 1
    [] R.state = "HASH_LEAF" ->
         (IF tree_r_only THEN 0 ELSE 1)
           + (IF R.work_r.layer > GetNumTreeRDiscardRows THEN 1 ELSE 0)
    [] OTHER -> 0

\* a step of the orchestrator loop: not a callback, the reader, a writer or
\* the top-hash task
OrchestratorStep ==
  /\ pc = "loop"
  /\ wr' = wr /\ task' = task
  /\ \A x \in DOMAIN res :
       /\ res[x].op # NoOp => res'[x].op # NoOp
       /\ res[x].loading => res'[x].loading

\* C18: a resource leaves DATA_WAIT (not tree_r_only), HASH_COLUMN,
\* HASH_COLUMN_LEAVES (not tree_r_only) or HASH_LEAF only in an orchestrator
\* step in which the minimum of the buffers available to dequeue and the
\* slots available to enqueue was at least the number of buffers the step
\* dequeues; otherwise the step leaves the resource and the pool unchanged.
C18_Backpressure ==
  [][pc = "loop" =>
       LET r == resource_num
           avail == Min(BuffersToDequeue, SlotsToEnqueue)
       IN /\ \A x \in DOMAIN res :
               (BuffersDequeued(res[x]) > 0 /\ res'[x].state # res[x].state) =>
                 /\ x = r /\ OrchestratorStep
                 /\ avail >= BuffersDequeued(res[x])
          /\ (OrchestratorStep /\ avail < BuffersDequeued(res[r])) =>
               /\ res'[r] = res[r]
               /\ UNCHANGED << batch, pool_full, pool_empty, to_disk, unbundle,
                               bundle, idx_unbundle, idx_bundle, bufs >>]_vars

\* a resource that went through HASH_LEAF for an earlier work item is now held
\* there by the pool
C18_Witness ==
  /\ pc = "loop" /\ res[resource_num].state = "HASH_LEAF"
  /\ res[resource_num].pos_c > 1
  /\ Min(BuffersToDequeue, SlotsToEnqueue) < BuffersDequeued(res[resource_num])

\* the visit of resource r gets past its size() check (and the other tests
\* before its first dequeue)
PassesSizeCheck(r) ==
  LET R == res[r]
  IN /\ BuffersDequeued(R) > 0
     /\ BatcherSize(PS) >= BuffersDequeued(R)
     /\ R.state = "DATA_WAIT" => R.valid
     /\ R.state = "HASH_COLUMN_LEAVES" => R.async_done
     /\ R.state = "HASH_LEAF" => ~LockBusy(R)

\* the buffers the visit of resource r dequeues, in order
Dequeues(r) ==
  LET d1 == BatcherDequeue(PS)
      d2 == BatcherDequeue(d1.ps)
  IN IF BuffersDequeued(res[r]) = 2 THEN << d1.buf, d2.buf >> ELSE << d1.buf >>

\* C19: in every interleaving of the orchestrator, the callbacks and the
\* writers, dequeue never returns null when the orchestrator calls it after a
\* passing size() check, and enqueue always obtains a bundle batch: no
\* dequeue or enqueue assertion of hash_gpu or of the batcher can fail.
C19_NoNullDequeueNoFailedEnqueue ==
  /\ (Running /\ pc = "loop" /\ PassesSizeCheck(resource_num)) =>
       /\ \A i \in DOMAIN Dequeues(resource_num) : Dequeues(resource_num)[i] # 0
       /\ res[resource_num].state = "DATA_WAIT" =>
            LET d == BatcherDequeue(PS) IN ~BatcherEnqueue(d.ps, d.buf).fail
  /\ \A r \in DOMAIN res :
       (Running /\ res[r].op.kind # "none") => ~CallbackEnqueue(r).fail

\* in a later partition, a visit that passed its size() check is about to
\* dequeue two buffers with the unbundle batch used up
C19_Witness ==
  /\ Running /\ pc = "loop" /\ partition >= 1
  /\ PassesSizeCheck(resource_num)
  /\ BuffersDequeued(res[resource_num]) = 2
  /\ unbundle = 0 /\ pool_full # << >>

\* the buffers of batch bt up to element k
BatchBufs(bt, k) == {batch[bt][j] : j \in 1 .. k} \ {0}

\* the buf_to_disk_t with non-zero size that were enqueued and are not yet
\* written: in the bundle, in a batch of to_disk, or in a batch a writer holds
EnqueuedBufs ==
  {b \in LiveBufs :
     \/ bundle # 0 /\ b \in BatchBufs(bundle, idx_bundle)
     \/ \E i \in DOMAIN to_disk : b \in BatchBufs(to_disk[i], disk_io_batch_size)
     \/ \E w \in DOMAIN wr :
          wr[w].held # 0 /\ b \in BatchBufs(wr[w].held, disk_io_batch_size)}

\* this step is a writer writing buffer b to its file
WrittenNow(b) ==
  /\ \E w \in DOMAIN wr :
       /\ wr[w].held # 0 /\ wr'[w].held = 0
       /\ b \in BatchBufs(wr[w].held, disk_io_batch_size)
  /\ \A f \in DOMAIN files :
       (f[1] = bufs[b].dst[1] /\ f[3] = bufs[b].dst[2]) =>
         \A slot \in DOMAIN files[f] :
           (slot >= bufs[b].offset /\ slot < bufs[b].offset + bufs[b].size) =>
             Len(files'[f][slot]) = Len(files[f][slot]) + 1

\* the state hash_gpu returns in
HashGpuQuiescent ==
  /\ \A r \in DOMAIN res :
       res[r].state = "DONE" /\ res[r].op = NoOp /\ res[r].async_done
  /\ bundle = 0 /\ unbundle = 0
  /\ to_disk = << >>
  /\ disk_writer_done = 0
  /\ \A w \in DOMAIN wr : wr[w].pc = "off" /\ wr[w].held = 0
  /\ EnqueuedBufs = {}

\* C20: when hash_gpu(p) returns, every resource is DONE, no completion
\* callback is pending, the batcher holds no batch, to_disk is empty, every
\* writer has exited (disk_writer_done = 0; no writer exits while terminate
\* is false or while it holds a batch), and every buf_to_disk_t with non-zero
\* size enqueued during the partition has been written by a writer exactly
\* once.
C20_ReturnQuiescent ==
  [][/\ (pc = "wait" /\ pc' = "lock") => HashGpuQuiescent'
     /\ \A w \in DOMAIN wr :
          (wr[w].pc # "off" /\ wr'[w].pc = "off") => (terminate /\ wr[w].held = 0)
     /\ pc' # "aborted" =>
          \A b \in EnqueuedBufs :
            \/ b \in EnqueuedBufs' /\ bufs'[b] = bufs[b]
            \/ WrittenNow(b)]_vars

\* the buffers a pending GPU operation group copies into: dequeued by the
\* visit, enqueued by the completion callback
CopyPendingBufs ==
  UNION {{res[r].op.buf_c, res[r].op.buf_r} : r \in {x \in DOMAIN res : res[x].op.kind # "none"}}
    \ {0}

\* the buffers on their way to a writer or with one, whatever their size
BufsInTransit ==
  (IF bundle = 0 THEN {} ELSE BatchBufs(bundle, idx_bundle))
    \cup UNION {BatchBufs(to_disk[i], disk_io_batch_size) : i \in DOMAIN to_disk}
    \cup UNION {BatchBufs(wr[w].held, disk_io_batch_size) :
                  w \in {x \in DOMAIN wr : wr[x].held # 0}}

\* the buffers dequeue can hand out: the rest of the unbundle batch and the
\* batches of pool_full
BufsToHandOut ==
  (IF unbundle = 0 THEN {}
   ELSE {batch[unbundle][j] : j \in (idx_unbundle + 1) .. disk_io_batch_size} \ {0})
    \cup UNION {BatchBufs(pool_full[i], disk_io_batch_size) : i \in DOMAIN pool_full}

Scheduled(r) == res'[r].op.kind # "none" /\ res'[r].op # res[r].op

\* this step is the completion callback of resource r
CallbackRan(r) == res[r].op.kind # "none" /\ res'[r].op.kind = "none"

\* C22: a completion callback is scheduled on a resource's stream only while
\* its async_done is true; async_done is set false at scheduling and set true
\* only by that callback; so at most one callback is pending per resource,
\* and the orchestrator advances a resource waiting in HASH_COLUMN_LEAVES or
\* HASH_WAIT only on observing async_done.
C22_OneCallbackPerResource ==
  [][\A r \in DOMAIN res \cap DOMAIN res' :
       /\ Scheduled(r) =>
            /\ res[r].async_done /\ res[r].op.kind = "none"
            /\ ~res'[r].async_done
       /\ (res[r].async_done /\ ~res'[r].async_done) => Scheduled(r)
       /\ (~res[r].async_done /\ res'[r].async_done) => CallbackRan(r)
       /\ CallbackRan(r) => res'[r].async_done
       /\ (res[r].state \in {"HASH_COLUMN_LEAVES", "HASH_WAIT"}
             /\ res'[r].state # res[r].state) => res[r].async_done]_vars

\* the callback of a later work item of a resource is pending
C22_Witness ==
  \E r \in DOMAIN res :
    /\ res[r].op.kind = "leaf" /\ ~res[r].async_done
    /\ res[r].state = "HASH_WAIT" /\ res[r].pos_c > 1

\* the state changes of the ResourceState machine, from the state of r now
\* to its state after the step
StateChangeAllowed(r) ==
  LET from == res[r].state
      to == res'[r].state
  IN \/ from = "IDLE" /\ to = "DATA_READ" /\ res'[r].work_c.is_leaf
     \/ from = "IDLE" /\ to = "HASH_LEAF" /\ ~res'[r].work_c.is_leaf
     \/ from = "DATA_READ" /\ to = "DATA_WAIT"
     \/ from = "DATA_WAIT" /\ to = "HASH_COLUMN" /\ ~tree_r_only
     \/ from = "DATA_WAIT" /\ to = "HASH_COLUMN_LEAVES" /\ tree_r_only
     \/ from = "HASH_COLUMN" /\ to = "HASH_COLUMN_LEAVES"
     \/ from = "HASH_COLUMN_LEAVES" /\ to = "HASH_WAIT"
     \/ from = "HASH_LEAF" /\ to = "HASH_WAIT"
     \/ from = "HASH_WAIT" /\ to = "DONE" /\ res[r].last
     \/ from = "HASH_WAIT" /\ to = "IDLE" /\ ~res[r].last

\* C23: within one hash_gpu call every resource starts in IDLE and changes
\* state only along IDLE -> DATA_READ (leaf item) or HASH_LEAF (internal
\* item), DATA_READ -> DATA_WAIT, DATA_WAIT -> HASH_COLUMN (HASH_COLUMN_LEAVES
\* when tree_r_only), HASH_COLUMN -> HASH_COLUMN_LEAVES, HASH_COLUMN_LEAVES ->
\* HASH_WAIT, HASH_LEAF -> HASH_WAIT, HASH_WAIT -> DONE for the last item and
\* IDLE otherwise; DONE has no successor; the orchestrator loop exits only
\* when every resource is DONE.
C23_ResourceStateMachine ==
  [][/\ (pc = "hash_gpu" /\ pc' = "loop") =>
          \A r \in DOMAIN res' : res'[r].state = "IDLE"
     /\ pc # "hash_gpu" =>
          \A r \in DOMAIN res :
            res'[r].state # res[r].state => StateChangeAllowed(r)
     /\ (pc = "loop" /\ pc' = "sync") =>
          \A r \in DOMAIN res : res'[r].state = "DONE"]_vars

\* the loop of a later partition has exited with two resources, each through
\* leaf and internal work items
C23_Witness ==
  /\ pc = "sync" /\ partition >= 1 /\ stream_count = 2
  /\ \A r \in DOMAIN res : res[r].state = "DONE" /\ res[r].pos_c > 1

\* the number of buffers dequeued by a visit and not yet enqueued by the
\* completion callback of its stream
HeldCount(R) ==
  IF R.op.kind = "none" THEN 0
  ELSE (IF R.op.buf_c # 0 THEN 1 ELSE 0) + (IF R.op.buf_r # 0 THEN 1 ELSE 0)
RECURSIVE HeldUpTo(_)
HeldUpTo(n) == IF n < 0 THEN 0 ELSE HeldCount(res[n]) + HeldUpTo(n - 1)
DequeuedNotEnqueued == HeldUpTo(Cardinality(DOMAIN res) - 1)

\* C24: every buffer passed to enqueue was returned by an earlier dequeue and
\* has not been enqueued since, and every dequeued buffer is enqueued once
\* before hash_gpu flushes the batcher: the dequeues exceed the enqueues by
\* the buffers the pending callbacks hold (idx_unbundle and idx_bundle count
\* them modulo the batch size), a callback enqueues the buffers its visit
\* dequeued and no other, and at the flush no buffer is held and
\* idx_bundle = idx_unbundle.
C24_DequeueEnqueueBalance ==
  [][/\ pc' \in {"loop", "sync"} =>
          (idx_unbundle' - idx_bundle' - DequeuedNotEnqueued') % disk_io_batch_size = 0
     /\ \A r \in DOMAIN res :
          (CallbackRan(r) /\ pc' # "aborted") =>
            /\ HeldCount(res[r]) > 0 =>
                 \/ bundle' = 0
                 \/ batch'[bundle'][idx_bundle'] \in {res[r].op.buf_c, res[r].op.buf_r} \ {0}
            /\ {res[r].op.buf_c, res[r].op.buf_r} \ {0} \subseteq BufsInTransit'
     /\ pc' = "sync" =>
          /\ DequeuedNotEnqueued' = 0
          /\ idx_bundle' = idx_unbundle']_vars

\* the flush of a later partition finds a partly filled bundle
C24_Witness ==
  /\ pc = "sync" /\ partition >= 1
  /\ idx_bundle > 0 /\ idx_bundle = idx_unbundle
  /\ DequeuedNotEnqueued = 0

\* the batcher was constructed and nothing was dequeued or enqueued since
BatcherUntouched ==
  /\ unbundle # 0 /\ idx_unbundle = 0
  /\ bundle # 0 /\ idx_bundle = 0

\* the batches of a queue
QueueBatches(q) == {q[i] : i \in DOMAIN q}

\* C25: when a batcher is flushed with no dequeue or enqueue since its
\* construction, its unbundle batch goes back to pool_full and its bundle
\* batch to pool_empty, so each of the three queues holds exactly the batches
\* it held before the batcher was constructed.
C25_UntouchedFlush ==
  [][(pc = "sync" /\ pc' = "wait" /\ BatcherUntouched) =>
       /\ QueueBatches(pool_full') = QueueBatches(pool_full) \cup {unbundle}
       /\ Len(pool_full') = Len(pool_full) + 1
       /\ QueueBatches(pool_empty') = QueueBatches(pool_empty) \cup {bundle}
       /\ Len(pool_empty') = Len(pool_empty) + 1
       /\ to_disk' = to_disk]_vars

\* this step is the partition runner spawning a top-hash task
TopHashSpawned == pc = "recv" /\ pc' \in {"hash_gpu", "final_recv"}

\* C26: at most one CPU top-hash task is pending or running and the channel
\* holds at most one value; the top-hash of partition p is spawned only after
\* hash_gpu(p) has returned and the top-hash of p - 1 has sent on the channel,
\* so the top-hashes run in partition order; the only GPU stage that overlaps
\* the top-hash of p is that of partition p + 1; cpu_input_c and cpu_input_r
\* are not overwritten while a top-hash reads them.
C26_TopHashPipeline ==
  [][/\ Len(ch) <= 1 /\ Len(ch') <= 1
     /\ task.pc # "idle" =>
          /\ ch = << >>
          /\ partition = task.partition + 1
          /\ pc \in {"hash_gpu", "loop", "sync", "wait", "lock", "recv", "final_recv"}
          /\ pc = "recv" => task.pc = "hash"
     /\ TopHashSpawned =>
          /\ task.pc = "idle"
          /\ Head(ch) = partition - 1
          /\ gpu_results_in_use = "main"
          /\ task'.pc = "copy" /\ task'.partition = partition
          /\ partition > 0 => task.partition = partition - 1
     /\ (task.pc = "hash" /\ pc' # "aborted") =>
          /\ cpu_input_c' = cpu_input_c
          /\ cpu_input_r' = cpu_input_r
     /\ (cpu_input_c' # cpu_input_c \/ cpu_input_r' # cpu_input_r) =>
          task.pc = "copy" /\ task'.pc = "hash"]_vars

\* the GPU stage of partition 1 is in its loop while the top-hash of
\* partition 0 hashes
C26_Witness ==
  /\ task.pc = "hash" /\ task.partition = 0
  /\ pc = "loop" /\ partition = 1
  /\ \E r \in DOMAIN res : res[r].pos_c > 1

\* element p * S + s of a partition-roots array holds root
RootStoredAt(roots, p, s, root) ==
  /\ p * PARALLEL_SECTORS + s + 1 \in DOMAIN roots
  /\ roots[p * PARALLEL_SECTORS + s + 1] = root

\* C27: write_roots runs only after the top-hash tasks of all P partitions
\* have completed and the final channel value was received, and then the
\* root of partition p, sector s is at index p * S + s of
\* tree_r_partition_roots and, unless tree_r_only, of tree_c_partition_roots.
C27_RootsBeforeWriteRoots ==
  pc = "write_roots" =>
    /\ task.pc = "idle" /\ task.partition = GetNumTreeRCFiles - 1
    /\ partition = GetNumTreeRCFiles /\ ch = << >>
    /\ \A p \in 0 .. (GetNumTreeRCFiles - 1) : \A s \in Sectors :
         /\ RootStoredAt(tree_r_partition_roots, p, s, TreeNode("r", s, RootLayer, p, 0))
         /\ ~tree_r_only =>
              RootStoredAt(tree_c_partition_roots, p, s, TreeNode("c", s, RootLayer, p, 0))

\* this step is the final HASH_LEAF of resource r scheduling its work
FinalHashLeaf(r) ==
  /\ res[r].state = "HASH_LEAF" /\ res[r].last
  /\ res'[r].state = "HASH_WAIT" /\ res'[r].op.kind = "leaf"

\* this step is the completion callback of the final HASH_LEAF of resource r
FinalLeafCallback(r) ==
  CallbackRan(r) /\ res[r].op.kind = "leaf" /\ res[r].last

\* this step is the unlock of the top-hash task after its two copies
TaskUnlock == task.pc = "copy" /\ task'.pc = "hash"

\* C28: gpu_results_in_use is acquired only by the successful try_lock of a
\* resource's final HASH_LEAF or by the partition runner before it spawns a
\* top-hash; each acquisition is followed by one unlock, in the callback of
\* that HASH_LEAF or in the top-hash task after its copy; it is never
\* unlocked while free; no visit acquires it and leaves the resource in
\* HASH_LEAF; it is free when hash_gpu returns and when hash() returns.
C28_GpuResultsInUse ==
  [][/\ (gpu_results_in_use = "free" /\ gpu_results_in_use' # "free") =>
          \/ /\ gpu_results_in_use' = "gpu"
             /\ \E r \in DOMAIN res : FinalHashLeaf(r)
          \/ /\ gpu_results_in_use' = "main"
             /\ pc = "lock" /\ pc' = "recv"
     /\ gpu_results_in_use' # gpu_results_in_use =>
          (gpu_results_in_use = "free" \/ gpu_results_in_use' = "free")
     /\ (gpu_results_in_use = "gpu" /\ gpu_results_in_use' = "free") =>
          \E r \in DOMAIN res : FinalLeafCallback(r)
     /\ (gpu_results_in_use = "main" /\ gpu_results_in_use' = "free") => TaskUnlock
     /\ \A r \in DOMAIN res :
          /\ (FinalLeafCallback(r) /\ pc' # "aborted") =>
               gpu_results_in_use = "gpu" /\ gpu_results_in_use' = "free"
          /\ (FinalHashLeaf(r) /\ pc' # "aborted") =>
               gpu_results_in_use = "free" /\ gpu_results_in_use' = "gpu"
          /\ (OrchestratorStep /\ r = resource_num /\ res'[r].state = "HASH_LEAF") =>
               gpu_results_in_use' = gpu_results_in_use
     /\ TaskUnlock => gpu_results_in_use = "main" /\ gpu_results_in_use' = "free"
     /\ gpu_results_in_use = "gpu" =>
          Cardinality({r \in DOMAIN res : res[r].op.kind = "leaf" /\ res[r].last}) = 1
     /\ gpu_results_in_use = "main" => (pc = "recv" \/ task.pc = "copy")
     /\ pc \in {"lock", "done"} => gpu_results_in_use = "free"]_vars

\* with two resources, one holds the mutex for its final HASH_LEAF while the
\* other waits for it in its own final HASH_LEAF, in a later partition
C28_Witness ==
  /\ gpu_results_in_use = "gpu" /\ partition >= 1
  /\ \E r \in DOMAIN res :
       res[r].state = "HASH_LEAF" /\ res[r].last /\ res[r].async_done

\* the tree_address_t and the final GPU offset of the files of a tree
TreeAddressOf(kind) == IF kind = "c" THEN tree_c_address ELSE tree_r_address
FinalGpuOffsetOf(kind) == IF kind = "c" THEN final_gpu_offset_c ELSE final_gpu_offset_r

\* the trees that get files
TreesWritten == IF tree_r_only THEN {"r"} ELSE {"c", "r"}

\* C29: final_gpu_offset = tree_address.data_size() - final_tree.data_size()
\* (final_tree over batch_size * stream_count / A^2 leaves) is computed
\* without unsigned underflow for tree-C and, for every D in
\* [0, log_A(leaves)), for tree-R; every GPU-stage write to a tree file ends
\* at or below that byte offset; every CPU top-hash write lies inside
\* [final_gpu_offset, data_size()).
C29_FinalGpuOffset ==
  Running =>
    /\ data_size(tree_c_address) >= data_size(final_tree)
    /\ data_size(tree_r_address) >= data_size(final_tree)
    /\ \A b \in LiveBufs :
         bufs[b].dst[1] \in {"c", "r"} =>
           (bufs[b].offset + bufs[b].size) * NODE_SIZE
             <= FinalGpuOffsetOf(bufs[b].dst[1])
    /\ \A kind \in TreesWritten : \A k \in DOMAIN CpuItems :
         LET at == AddW(address(final_tree, CpuItems[k].layer - 1, CpuItems[k].node),
                        FinalGpuOffsetOf(kind))
         IN /\ at >= FinalGpuOffsetOf(kind)
            /\ at + NODE_SIZE <= data_size(TreeAddressOf(kind))

\* C30 as stated: for every table index L, layer_offsets_c[L] =
\* nodes_per_stream / A^(L+1), and layer_offsets_r[L] has the same form after
\* skipping D + 1 layers at the bottom.
C30_OffsetTables ==
  Running =>
    /\ \A L \in 0 .. (Len(layer_offsets_c) - 1) :
         layer_offsets_c[L + 1] = nodes_per_stream \div Pow(TREE_ARITY, L + 1)
    /\ \A L \in 0 .. (Len(layer_offsets_r) - 1) :
         layer_offsets_r[L + 1] =
           (nodes_per_stream \div Pow(TREE_ARITY, GetNumTreeRDiscardRows + 1))
             \div Pow(TREE_ARITY, L + 1)

\* C30 amended: for every table index L, layer_offsets_c[L] =
\* nodes_per_stream / A^L (the table starts with nodes_per_stream itself),
\* and layer_offsets_r[L] = nodes_per_stream / A^(D+1+L); a visit that uses
\* an entry multiplies it by the number of its resource.
C30_OffsetTablesFromLeaves ==
  Running =>
    /\ \A L \in 0 .. (Len(layer_offsets_c) - 1) :
         layer_offsets_c[L + 1] = nodes_per_stream \div Pow(TREE_ARITY, L)
    /\ \A L \in 0 .. (Len(layer_offsets_r) - 1) :
         layer_offsets_r[L + 1] =
           nodes_per_stream \div Pow(TREE_ARITY, GetNumTreeRDiscardRows + 1 + L)
    /\ \A r \in DOMAIN res :
         (res[r].op.kind = "leaf" /\ res[r].op.buf_c # 0) =>
           bufs[res[r].op.buf_c].offset * NODE_SIZE =
             address(tree_c_address, res[r].work_c.layer,
                     (res[r].work_c.node * batch_size) \div TREE_ARITY
                       + (nodes_per_stream \div Pow(TREE_ARITY, res[r].work_c.layer)) * r)

\* the second of two resources has a HASH_LEAF write of tree-c pending, at
\* an offset taken from the table
C30_Witness ==
  /\ stream_count = 2 /\ Len(layer_offsets_c) >= 2
  /\ 1 \in DOMAIN res
  /\ res[1].op.kind = "leaf" /\ res[1].op.buf_c # 0
  /\ bufs[res[1].op.buf_c].offset > 0

\* the leaf-level input nodes of hash_cpu
CpuLeafInputs == 0 .. ((batch_size * stream_count) \div TREE_ARITY - 1)

\* C31: in hash_cpu, for sector s and leaf-level input node m the element
\* read is input[(m div group_size) * group_size * S + s * group_size
\* + (m mod group_size)]; over all pairs (s, m) the index map is a bijection
\* onto [0, B * S * stream_count / A), and the element read is the node that
\* stream m div group_size stashed as node m mod group_size of sector s in
\* its final HASH_LEAF.
C31_StridedLeafReads ==
  task.pc = "hash" =>
    /\ {CpuInputIndex(s, m) : s \in Sectors, m \in CpuLeafInputs}
         = 0 .. ((batch_size * PARALLEL_SECTORS * stream_count) \div TREE_ARITY - 1)
    /\ \A s1, s2 \in Sectors : \A m1, m2 \in CpuLeafInputs :
         CpuInputIndex(s1, m1) = CpuInputIndex(s2, m2) => (s1 = s2 /\ m1 = m2)
    /\ \A s \in Sectors : \A m \in CpuLeafInputs :
         /\ InputAt(cpu_input_r, CpuInputIndex(s, m))
              = TreeNode("r", s, TopGpuLayer, task.partition, m)
         /\ ~tree_r_only =>
              InputAt(cpu_input_c, CpuInputIndex(s, m))
                = TreeNode("c", s, TopGpuLayer, task.partition, m)

\* the top-hash of a later partition reads the stashes of two streams
C31_Witness ==
  /\ task.pc = "hash" /\ task.partition = 1
  /\ stream_count = 2
  /\ Len(cpu_input_r) = (batch_size * PARALLEL_SECTORS * stream_count) \div TREE_ARITY

\* B * stream_count / A^2 is a multiple of A
FinalLeafCountOk ==
  (((cfg.batch_size * cfg.stream_count) \div TREE_ARITY) \div TREE_ARITY) % TREE_ARITY = 0

\* B / A is a multiple of A
GroupSizeOk == (cfg.batch_size \div TREE_ARITY) % TREE_ARITY = 0

\* the arguments pass every assert of the constructor before open_files
PassesEarlyAsserts ==
  /\ cfg.rc_arity = TREE_ARITY
  /\ cfg.nodes_to_read % cfg.stream_count = 0
  /\ cfg.nodes_to_read % TREE_ARITY = 0

\* C32: engine construction completes only if B * stream_count / A^2 is a
\* multiple of A, and hash_cpu proceeds only if B / A is a multiple of A; for
\* other parameters the engine aborts on an assertion, in the constructor
\* case after the output files have been created.
C32_BatchSizeAsserts ==
  [][/\ (pc = "new" /\ pc' = "hash") => FinalLeafCountOk
     /\ (pc = "new" /\ pc' # "new" /\ PassesEarlyAsserts /\ ~FinalLeafCountOk) =>
          /\ pc' = "aborted" /\ fault' = "assert"
          /\ files = << >> /\ DOMAIN files' = OpenedFiles /\ OpenedFiles # {}
          /\ res' = << >>
     /\ (task.pc = "hash" /\ task'.pc = "idle") => GroupSizeOk
     /\ (task.pc = "hash" /\ ~GroupSizeOk) =>
          /\ task'.pc = "hash" /\ files' = files
          /\ tree_r_partition_roots' = tree_r_partition_roots
          /\ (task' # task \/ fault' # fault) => fault' = "assert"]_vars

\* the constructor has aborted on the assert of final_tree, with the output
\* files created and no resource
C32_Witness ==
  /\ ~FinalLeafCountOk /\ PassesEarlyAsserts
  /\ pc = "aborted" /\ fault = "assert"
  /\ DOMAIN files = OpenedFiles /\ res = << >>

\* element q of a partition-roots array holds the root of some partition's
\* tree for sector s
WrittenByTopHash(kind, roots, q, s) ==
  \E p \in 0 .. (GetNumTreeRCFiles - 1) : roots[q] = TreeNode(kind, s, RootLayer, p, 0)

\* C33: for every partition p and sector s the index p * S + s at which
\* hash() stores a partition root lies inside the S * A element
\* partition-roots arrays, and every entry i * S + s (i in [0, A)) that
\* write_roots reads when P > 1 was written by some partition's top-hash.
C33_RootIndexes ==
  /\ task.pc \in {"copy", "hash"} =>
       \A s \in Sectors :
         /\ task.partition * PARALLEL_SECTORS + s + 1 \in DOMAIN tree_r_partition_roots
         /\ task.partition * PARALLEL_SECTORS + s + 1 \in DOMAIN tree_c_partition_roots
  /\ (pc = "write_roots" /\ GetNumTreeRCFiles > 1) =>
       \A i \in 0 .. (TREE_ARITY - 1) : \A s \in Sectors :
         /\ WrittenByTopHash("r", tree_r_partition_roots, i * PARALLEL_SECTORS + s + 1, s)
         /\ ~tree_r_only =>
              WrittenByTopHash("c", tree_c_partition_roots, i * PARALLEL_SECTORS + s + 1, s)


\* index i is inside the vector table (counted from 0 as in the source)
TableIndexOk(table, i) == i >= 0 /\ i < Len(table)

\* C34: a tree-R write is issued in HASH_LEAF only for a work item with
\* layer > D, so layer - D - 1 is never negative; and for every work item a
\* resource is about to process, the indexes layer - 1 (HASH_COLUMN) and
\* layer (HASH_COLUMN_LEAVES, HASH_LEAF) into layer_offsets_c and
\* layer - D - 1 (HASH_LEAF) into layer_offsets_r are inside the tables the
\* constructor built.
C34_TableIndexes ==
  \A r \in DOMAIN res :
    LET R == res[r]
    IN /\ (R.state = "HASH_WAIT" /\ R.op.kind = "leaf" /\ R.op.write_r) =>
            /\ R.work_r.layer > GetNumTreeRDiscardRows
            /\ R.work_r.layer - GetNumTreeRDiscardRows - 1 >= 0
       /\ R.state = "HASH_COLUMN" =>
            TableIndexOk(layer_offsets_c, R.work_c.layer - 1)
       /\ (R.state = "HASH_COLUMN_LEAVES" /\ ~tree_r_only) =>
            TableIndexOk(layer_offsets_c, R.work_c.layer)
       /\ R.state = "HASH_LEAF" =>
            /\ ~tree_r_only => TableIndexOk(layer_offsets_c, R.work_c.layer)
            /\ WriteTreeR(R.work_r) =>
                 TableIndexOk(layer_offsets_r,
                              R.work_r.layer - GetNumTreeRDiscardRows - 1)


\* the runner acquires gpu_results_in_use in this step
RunnerAcquires == gpu_results_in_use # "main" /\ gpu_results_in_use' = "main"

\* the runner receives from the channel and spawns the top-hash task in
\* this step of the partition loop
RunnerReceives == task.pc # "copy" /\ task'.pc = "copy"

\* C35 as stated: in each partition step the runner first receives from
\* the single-slot channel and only then acquires gpu_results_in_use, so
\* at the receive it does not hold the mutex yet.
C35_RecvThenLock ==
  [][RunnerReceives => (ch # << >> /\ ch' = Tail(ch) /\ gpu_results_in_use # "main")]_vars

\* C35 amended: in each partition step the runner first acquires
\* gpu_results_in_use, leaving the channel alone, and only then receives
\* from the single-slot channel and spawns the top-hash task, still
\* holding the mutex.
C35_LockThenRecv ==
  [][/\ RunnerAcquires =>
          (pc = "lock" /\ pc' = "recv" /\ ch' = ch /\ task' = task)
     /\ RunnerReceives =>
          /\ pc = "recv" /\ ch # << >> /\ ch' = Tail(ch)
          /\ gpu_results_in_use = "main" /\ gpu_results_in_use' = "main"]_vars

\* the top-hash task of the second partition was spawned and the runner's
\* acquisition is still in force
C35_Witness ==
  /\ task.pc = "copy" /\ task.partition = 1
  /\ gpu_results_in_use = "main" /\ ch = << >>


\* the fields of resource r the orchestrator advances are left alone
ResourceFrame(r) ==
  /\ res'[r].state = res[r].state /\ res'[r].last = res[r].last
  /\ res'[r].work_c = res[r].work_c /\ res'[r].work_r = res[r].work_r
  /\ res'[r].start_node = res[r].start_node

InLockStep(R) ==
  /\ R.pos_c = R.pos_r
  /\ R.work_c.layer = R.work_r.layer /\ R.work_c.node = R.work_r.node
  /\ R.work_c.is_leaf = R.work_r.is_leaf

\* C37: the tree-C and tree-R schedulers of a resource are reset together
\* before each partition and advanced together in the same IDLE step, so
\* work_c.idx = work_r.idx and work_c.is_leaf = work_r.is_leaf in every
\* state, and the tree-R scheduler reaches its final item in the step in
\* which `last` is set from the tree-C scheduler.
C37_SchedulersInLockStep ==
  [][\A r \in DOMAIN res :
       /\ InLockStep(res[r]) /\ InLockStep(res'[r])
       /\ (res'[r].pos_c # res[r].pos_c \/ res'[r].pos_r # res[r].pos_r) =>
            \/ /\ pc = "hash_gpu"
               /\ res'[r].pos_c = 0 /\ res'[r].pos_r = 0
            \/ /\ OrchestratorStep /\ r = resource_num /\ res[r].state = "IDLE"
               /\ res'[r].pos_c = res[r].pos_c + 1
               /\ res'[r].pos_r = res[r].pos_r + 1
       /\ (~res[r].last /\ res'[r].last) =>
            /\ res'[r].pos_r = Len(Items)
            /\ res'[r].work_r = Items[Len(Items)]
            /\ res[r].pos_r = Len(Items) - 1]_vars

\* in the second partition, after the reset, a resource has been advanced
\* to its final work item
C37_Witness ==
  \E r \in DOMAIN res :
    /\ partition = 1 /\ pc = "loop"
    /\ res[r].last /\ res[r].state = "HASH_LEAF"
    /\ res[r].pos_r = Len(Items) /\ res[r].work_r = Items[Len(Items)]
    /\ Len(Items) > 1


\* the BufToDisk pointers batch bt still refers to: all K of a batch in a
\* queue, the ones not yet dequeued of the batcher's unbundle batch
BatchRefs(bt) ==
  {batch[bt][j] : j \in (IF bt = unbundle THEN idx_unbundle + 1 ELSE 1)
                          .. disk_io_batch_size} \ {0}

\* the batches in pool_full and to_disk and the batcher's unbundle batch
BatchesWithBufs ==
  QueueBatches(pool_full) \cup QueueBatches(to_disk)
    \cup (IF unbundle = 0 THEN {} ELSE {unbundle})

\* C38: in every state after construction every batch in pool_full holds
\* K non-null, pairwise distinct BufToDisk pointers, each with its own
\* host-buffer region, and no BufToDisk is referenced from two batches among
\* pool_full, to_disk and the batcher's unbundle remainder.
C38_BatchesHoldOwnBufs ==
  pc \notin {"new", "aborted"} =>
    /\ \A q \in DOMAIN pool_full :
         /\ \A j \in 1 .. disk_io_batch_size : batch[pool_full[q]][j] \in BufIds
         /\ Cardinality(BatchBufs(pool_full[q], disk_io_batch_size)) = disk_io_batch_size
         /\ \A q2 \in DOMAIN pool_full : pool_full[q2] = pool_full[q] => q2 = q
    /\ \A a \in BatchesWithBufs : \A b \in BatchesWithBufs :
         a # b => BatchRefs(a) \cap BatchRefs(b) = {}

====
